---- MODULE Spec2Model ----
(***************************************************************************)
(* RAID: realignment of a labelled token stream onto the source lines      *)
(* (TokenLabelFilesGenerator.write_file), the export of the .in / .label / *)
(* .bio streams, label canonicalisation (LabelDictionary), the naming     *)
(* classifier, leaf extraction and BIO labelling over a syntax tree, and   *)
(* the command line of the pipeline.                                       *)
(*                                                                         *)
(* Text is modelled as a sequence of one-character strings, so that        *)
(* str.find, str.split, slicing, lower() and upper() are computed and not  *)
(* assumed.  Python indices are 0-based; TLA+ sequences are 1-based: the   *)
(* variables prev, token_index and count keep the Python (0-based) values. *)
(***************************************************************************)
EXTENDS Integers, Sequences, FiniteSets, TLC

\* ------------------------------------------------------------------------
\* Bounds of the explored inputs
\* ------------------------------------------------------------------------
MaxStrLen == 3
MaxTokens == 3
MaxCalls == 2

\* ------------------------------------------------------------------------
\* Text helpers
\* ------------------------------------------------------------------------
NL == "\n"
SP == " "

Min(S) == CHOOSE x \in S : \A y \in S : x <= y

SeqsUpTo(S, n) == UNION {[1..k -> S] : k \in 0..n}

RECURSIVE Flatten(_)
\* ''.join(parts)
Flatten(parts) ==
    IF parts = <<>> THEN <<>> ELSE Head(parts) \o Flatten(Tail(parts))

\* the characters of s that are not in drop, in order
Without(s, drop) == SelectSeq(s, LAMBDA c : c \notin drop)

\* str.find(t, start): the lowest 0-based index i >= start at which t occurs
\* in line, or -1
Find(line, t, start) ==
    LET hits == {i \in start..(Len(line) - Len(t)) :
                    \A k \in 1..Len(t) : line[i + k] = t[k]}
    IN  IF hits = {} THEN -1 ELSE Min(hits)

RECURSIVE Split(_, _)
\* str.split(sep) for a one-character separator
Split(s, sep) ==
    LET idx == {i \in 1..Len(s) : s[i] = sep}
    IN  IF idx = {} THEN <<s>>
        ELSE <<SubSeq(s, 1, Min(idx) - 1)>>
                 \o Split(SubSeq(s, Min(idx) + 1, Len(s)), sep)

\* seq[lo:hi] of Python (0-based, hi exclusive, clipped to the sequence)
Slice(seq, lo, hi) ==
    SubSeq(seq, lo + 1, IF hi < Len(seq) THEN hi ELSE Len(seq))

\* ------------------------------------------------------------------------
\* Label canonicalisation (label_dictionary.py)
\* ------------------------------------------------------------------------
\* str.lower() / str.upper(): the ASCII letters change case; of the letters
\* outside ASCII the model keeps two, each standing for one character, that
\* str.upper() sends to an ASCII letter and str.lower() leaves alone; every
\* other character is kept
DotlessI == "U+0131"
LongS == "U+017F"

ToLower ==
    "A" :> "a" @@ "B" :> "b" @@ "C" :> "c" @@ "D" :> "d" @@ "E" :> "e" @@ "F" :> "f" @@
    "G" :> "g" @@ "H" :> "h" @@ "I" :> "i" @@ "J" :> "j" @@ "K" :> "k" @@ "L" :> "l" @@
    "M" :> "m" @@ "N" :> "n" @@ "O" :> "o" @@ "P" :> "p" @@ "Q" :> "q" @@ "R" :> "r" @@
    "S" :> "s" @@ "T" :> "t" @@ "U" :> "u" @@ "V" :> "v" @@ "W" :> "w" @@ "X" :> "x" @@
    "Y" :> "y" @@ "Z" :> "z"

ToUpper ==
    "a" :> "A" @@ "b" :> "B" @@ "c" :> "C" @@ "d" :> "D" @@ "e" :> "E" @@ "f" :> "F" @@
    "g" :> "G" @@ "h" :> "H" @@ "i" :> "I" @@ "j" :> "J" @@ "k" :> "K" @@ "l" :> "L" @@
    "m" :> "M" @@ "n" :> "N" @@ "o" :> "O" @@ "p" :> "P" @@ "q" :> "Q" @@ "r" :> "R" @@
    "s" :> "S" @@ "t" :> "T" @@ "u" :> "U" @@ "v" :> "V" @@ "w" :> "W" @@ "x" :> "X" @@
    "y" :> "Y" @@ "z" :> "Z" @@ DotlessI :> "I" @@ LongS :> "S"

lower(s) == [i \in 1..Len(s) |-> IF s[i] \in DOMAIN ToLower THEN ToLower[s[i]] ELSE s[i]]

upper(s) == [i \in 1..Len(s) |-> IF s[i] \in DOMAIN ToUpper THEN ToUpper[s[i]] ELSE s[i]]

\* LabelDictionary.label_types: raw label (lower case) -> canonical name
label_types ==
    (<<":", ":">> :> <<"D", "O", "U", "B", "L", "E", "C", "O", "L", "O", "N">>) @@
    (<<"-", "-">> :> <<"D", "O", "U", "B", "L", "E", "M", "I", "N", "U", "S">>) @@
    (<<"+", "+">> :> <<"D", "O", "U", "B", "L", "E", "P", "L", "U", "S">>) @@
    (<<"f", "a", "l", "s", "e">> :> <<"B", "O", "O", "L">>) @@
    (<<"t", "r", "u", "e">> :> <<"B", "O", "O", "L">>) @@
    (<<"m", "o", "d", "i", "f", "i", "e", "r">> :> <<"M", "O", "D", "I", "F", "I", "E", "R">>) @@
    (<<"p", "u", "b", "l", "i", "c">> :> <<"M", "O", "D", "I", "F", "I", "E", "R">>) @@
    (<<"b", "a", "s", "i", "c", "t", "y", "p", "e">> :> <<"T", "Y", "P", "E">>) @@
    (<<"n", "u", "l", "l">> :> <<"I", "D", "E", "N", "T">>) @@
    (<<"k", "e", "y", "w", "o", "r", "d">> :> <<"K", "E", "Y", "W", "O", "R", "D">>) @@
    (<<"i", "d", "e", "n", "t", "i", "f", "i", "e", "r">> :> <<"I", "D", "E", "N", "T">>) @@
    (<<"d", "e", "c", "i", "m", "a", "l", "i", "n", "t", "e", "g", "e", "r">> :> <<"N", "U", "M", "B", "E", "R">>) @@
    (<<"d", "e", "c", "i", "m", "a", "l", "f", "l", "o", "a", "t", "i", "n", "g", "p", "o", "i", "n", "t">> :> <<"N", "U", "M", "B", "E", "R">>) @@
    (<<"s", "t", "r", "i", "n", "g">> :> <<"S", "T", "R", "I", "N", "G">>) @@
    (<<"s", "t", "r", "i", "n", "g", "_", "f", "r", "a", "g", "m", "e", "n", "t">> :> <<"S", "T", "R", "I", "N", "G">>) @@
    (<<"(">> :> <<"L", "P", "A", "R">>) @@
    (<<")">> :> <<"R", "P", "A", "R">>) @@
    (<<"[">> :> <<"L", "S", "Q", "B">>) @@
    (<<"]">> :> <<"R", "S", "Q", "B">>) @@
    (<<",">> :> <<"C", "O", "M", "M", "A">>) @@
    (<<"?">> :> <<"C", "O", "N", "D", "I", "T", "I", "O", "N", "O", "P">>) @@
    (<<";">> :> <<"S", "E", "M", "I">>) @@
    (<<"+">> :> <<"P", "L", "U", "S">>) @@
    (<<"-">> :> <<"M", "I", "N", "U", "S">>) @@
    (<<"*">> :> <<"S", "T", "A", "R">>) @@
    (<<"/">> :> <<"S", "L", "A", "S", "H">>) @@
    (<<".">> :> <<"D", "O", "T">>) @@
    (<<"=">> :> <<"E", "Q", "U", "A", "L">>) @@
    (<<":">> :> <<"C", "O", "L", "O", "N">>) @@
    (<<"|">> :> <<"V", "B", "A", "R">>) @@
    (<<"&">> :> <<"A", "M", "P", "E", "R">>) @@
    (<<"<">> :> <<"L", "E", "S", "S">>) @@
    (<<">">> :> <<"G", "R", "E", "A", "T", "E", "R">>) @@
    (<<"%">> :> <<"P", "E", "R", "C", "E", "N", "T">>) @@
    (<<"{">> :> <<"L", "B", "R", "A", "C", "E">>) @@
    (<<"}">> :> <<"R", "B", "R", "A", "C", "E">>) @@
    (<<"=", "=">> :> <<"E", "Q", "E", "Q", "U", "A", "L">>) @@
    (<<"!", "=">> :> <<"N", "O", "T", "E", "Q", "U", "A", "L">>) @@
    (<<"<", "=">> :> <<"L", "E", "S", "S", "E", "Q", "U", "A", "L">>) @@
    (<<">", "=">> :> <<"G", "R", "E", "A", "T", "E", "R", "E", "Q", "U", "A", "L">>) @@
    (<<"~">> :> <<"T", "I", "L", "D", "E">>) @@
    (<<"^">> :> <<"C", "I", "R", "C", "U", "M", "F", "L", "E", "X">>) @@
    (<<"\"">> :> <<"D", "Q", "U", "O", "T", "E", "S">>) @@
    (<<"<", "<">> :> <<"L", "E", "F", "T", "S", "H", "I", "F", "T">>) @@
    (<<">", ">">> :> <<"R", "I", "G", "H", "T", "S", "H", "I", "F", "T">>) @@
    (<<"*", "*">> :> <<"D", "O", "U", "B", "L", "E", "S", "T", "A", "R">>) @@
    (<<"+", "=">> :> <<"P", "L", "U", "S", "E", "U", "Q", "A", "L">>) @@
    (<<"-", "=">> :> <<"M", "I", "N", "E", "Q", "U", "A", "L">>) @@
    (<<"*", "=">> :> <<"S", "T", "A", "R", "E", "Q", "U", "A", "L">>) @@
    (<<"/", "=">> :> <<"S", "L", "A", "S", "H", "E", "Q", "U", "A", "L">>) @@
    (<<"%", "=">> :> <<"P", "E", "R", "C", "E", "N", "T", "E", "Q", "U", "A", "L">>) @@
    (<<"&", "=">> :> <<"A", "M", "P", "E", "R", "E", "Q", "U", "A", "L">>) @@
    (<<"|", "=">> :> <<"V", "B", "A", "R", "E", "Q", "U", "A", "L">>) @@
    (<<"^", "=">> :> <<"C", "I", "R", "C", "U", "M", "F", "L", "E", "X", "E", "Q", "U", "A", "L">>) @@
    (<<"<", "<", "=">> :> <<"L", "E", "F", "T", "S", "H", "I", "F", "T", "E", "Q", "U", "A", "L">>) @@
    (<<">", ">", "=">> :> <<"R", "I", "G", "H", "T", "S", "H", "I", "F", "T", "E", "Q", "U", "A", "L">>) @@
    (<<"*", "*", "=">> :> <<"D", "O", "U", "B", "L", "E", "S", "T", "A", "R", "E", "Q", "U", "A", "L">>) @@
    (<<"/", "/">> :> <<"D", "O", "U", "B", "L", "E", "S", "L", "A", "S", "H">>) @@
    (<<"/", "/", "=">> :> <<"D", "O", "U", "B", "L", "E", "S", "L", "A", "S", "H", "E", "Q", "U", "A", "L">>) @@
    (<<"@">> :> <<"A", "T">>) @@
    (<<"@", "=">> :> <<"A", "T", "E", "Q", "U", "A", "L">>) @@
    (<<"-", ">">> :> <<"R", "A", "R", "R", "O", "W">>) @@
    (<<".", ".", ".">> :> <<"E", "L", "L", "I", "P", "S", "I", "S">>) @@
    (<<":", "=">> :> <<"C", "O", "L", "O", "N", "E", "Q", "U", "A", "L">>) @@
    (<<"&", "&">> :> <<"A", "N", "D">>) @@
    (<<"!">> :> <<"N", "O", "T">>) @@
    (<<"|", "|">> :> <<"O", "R">>)

\* a lookup that forgets to lower-case the label
convert_label_exact(label) ==
    IF label \notin DOMAIN label_types THEN upper(label) ELSE label_types[label]

\* a lookup by the exact text that lower-cases what it does not find
convert_label_lowers(label) ==
    IF label \notin DOMAIN label_types THEN lower(label) ELSE label_types[label]

\* LabelDictionary.convert_label
convert_label(label) ==
    LET label_l == lower(label)
        check == label_l \in DOMAIN label_types
    IN  IF ~check THEN upper(label) ELSE label_types[lower(label)]

\* ------------------------------------------------------------------------
\* write_file: the scan of one line (raid/generate_files.py, lines 59-69)
\* ------------------------------------------------------------------------
\* The value of count before the first enumerate() iteration has bound it.
Unbound == -1

\* the scan without the retraction of line 65
RECURSIVE scan_unretracted(_, _, _, _, _, _)
scan_unretracted(line, toks, prev, k, ti, starts) ==
    IF prev + k >= Len(toks)
    THEN [iterated |-> k > 0, count |-> k - 1, decreased |-> FALSE,
          token_index |-> ti, starts |-> starts, failed |-> FALSE]
    ELSE LET f == Find(line, toks[prev + k + 1], ti)
         IN  IF f >= ti
             THEN scan_unretracted(line, toks, prev, k + 1, f + 1, Append(starts, f))
             ELSE [iterated |-> TRUE, count |-> k, decreased |-> k >= 2,
                   token_index |-> ti, starts |-> starts, failed |-> TRUE]

RECURSIVE scan(_, _, _, _, _, _)
\* for count, t in enumerate(tokens[prev:]) ... break: k is the enumerate
\* index of the token tried next, ti the character cursor (token_index) and
\* starts the positions found so far.  iterated tells whether the loop body
\* ran at all (when it did not, count keeps the value it had before).
scan(line, toks, prev, k, ti, starts) ==
    IF prev + k >= Len(toks)
    THEN [iterated |-> k > 0, count |-> k - 1, decreased |-> FALSE,
          token_index |-> ti, starts |-> starts, failed |-> FALSE]
    ELSE LET f == Find(line, toks[prev + k + 1], ti)
         IN  IF f >= ti
             THEN scan(line, toks, prev, k + 1, f + 1, Append(starts, f))
             ELSE [iterated |-> TRUE,
                   count |-> IF k >= 2 THEN k - 1 ELSE k,
                   decreased |-> k >= 2,
                   token_index |-> ti, starts |-> starts, failed |-> TRUE]

\* if count == 1 and not decreased: count = count - 1     (lines 68-69)
adjust(count, decreased) ==
    IF count = 1 /\ ~decreased THEN count - 1 ELSE count

\* a cursor that stops on the last token written instead of after it
next_prev_short(prev, count) == prev + count

\* prev = prev + count + 1                                  (line 77)
next_prev(prev, count) == prev + count + 1

Lesser(a, b) == IF a < b THEN a ELSE b

\* the 0-based indices j that zip(tokens[prev:prev+count+1],
\* labels[prev:prev+count+1]) pairs up                       (line 70)
zipped(toks, labs, prev, count) ==
    LET hi == Lesser(prev + count + 1, Lesser(Len(toks), Len(labs)))
    IN  [i \in 1..(hi - prev) |-> prev + i - 1]

\* what one write() loop appends to each stream for the indices js, and the
\* closing line break                                        (lines 70-76)
in_text(toks, js) ==
    Flatten([i \in 1..Len(js) |-> toks[js[i] + 1] \o <<SP>>]) \o <<NL>>

label_text(labs, js) ==
    Flatten([i \in 1..Len(js) |->
                convert_label(Slice(labs[js[i] + 1], 2, Len(labs[js[i] + 1])))
                    \o <<SP>>]) \o <<NL>>

bio_text(labs, js) ==
    Flatten([i \in 1..Len(js) |-> <<labs[js[i] + 1][1]>> \o <<SP>>]) \o <<NL>>

\* ------------------------------------------------------------------------
\* Inputs
\* ------------------------------------------------------------------------
\* the block comment of test_multiline_comment, "/**", "* {@inheritDoc}" and
\* "*/", the second and the third line indented by n blanks
CommentLines(n) ==
    <<"/", "*", "*", NL>> \o [k \in 1..n |-> SP]
        \o <<"*", SP, "{", "@", "i", "n", "h", "e", "r", "i", "t", "D", "o", "c", "}", NL>>
        \o [k \in 1..n |-> SP] \o <<"*", "/">>

\* the text as the test writes it
CommentText == CommentLines(22)

\* the token stream of the scenario: the delimiters of the comment, the
\* asterisk and the tag as four tokens.  The tokenizer of the test
\* (PatternExtractor.get_all_bio_labels) is not among the sources; line 82 of
\* the test lists the expected lines, not the tokens.
CommentTokens ==
    << <<"/", "*", "*">>, <<"*">>,
       <<"{", "@", "i", "n", "h", "e", "r", "i", "t", "D", "o", "c", "}">>,
       <<"*", "/">> >>

\* the comment at the indentation of the test and at an indentation of one
\* blank, with that token stream
Scenarios ==
    {[string |-> CommentLines(n), tokens |-> CommentTokens] : n \in {1, 22}}

\* write_file is called on every text of a, b, blanks and line breaks with
\* every stream of the tokens a, b and "a b", and on the scenarios
Inputs ==
    {[string |-> s, tokens |-> t] :
        s \in SeqsUpTo({"a", "b", SP, NL}, MaxStrLen),
        t \in SeqsUpTo({<<"a">>, <<"b">>, <<"a", SP, "b">>}, MaxTokens)}
    \cup Scenarios

\* labels as the labeller writes them, "<B|I|O>-<node type>"; the label of a
\* token is chosen by its position, so that neighbouring tokens differ
LabelCycle ==
    << <<"B", "-", "i", "d", "e", "n", "t", "i", "f", "i", "e", "r">>,
       <<"I", "-", "+", "+">>,
       <<"O", "-", ";">>,
       <<"B", "-", "C", "l", "a", "s", "s", "_", "B", "o", "d", "y">>,
       <<"I", "-", "P", "u", "b", "l", "i", "c">> >>

LabelsFor(toks) ==
    [j \in 1..Len(toks) |-> LabelCycle[((j - 1) % Len(LabelCycle)) + 1]]

\* what an earlier run left in an output file
Stale == <<"x", SP, NL>>

\* ------------------------------------------------------------------------
\* State
\* ------------------------------------------------------------------------
VARIABLES
    string,        \* write_file's argument: the source text
    tokens,        \* write_file's argument: the global token stream
    labels,        \* write_file's argument: one label per token
    pc,            \* "start" | "ready" | "loop" | "raised"
    calls,         \* write_file calls that have returned
    lines,         \* string.split('\n')
    li,            \* number of lines the for loop has handled
    prev,          \* global token cursor
    token_index,   \* character cursor in the current line
    decreased,     \* retraction flag
    count,         \* enumerate index kept across lines (Unbound at first)
    file_in,       \* content of <file_name>.in
    file_labels,   \* content of <file_name>.label
    file_bio,      \* content of <file_name>.bio
    groups,        \* history: one record per line handled by this call
    raw_label,     \* convert_label's argument
    canonical,     \* convert_label's result
    again,         \* convert_label's result on its own result
    lpc,           \* "idle" | "call" | "returned" | "twice"
    name_token,    \* find_label_with_regex's argument
    category,      \* find_label_with_regex's result
    cpc,           \* "idle" | "call" | "returned"
    entry,         \* the entry point that was called
    language,      \* the grammar id passed by the caller
    grammar,       \* the grammar the parser was made with, or "none"
    ast,           \* the tree the parser returned
    leaf_nodes,    \* get_nodes_at_level's result
    leaf_tokens,   \* extract_leaf_tokens' result
    bi,            \* the labelling loop's i
    bio_prev,      \* the labelling loop's prev
    o_type,
    bio,
    leaf_labels,
    table,         \* the printed table, by column
    printed,       \* the lines printed
    input_sentences,  \* content of <output_dir>/input_sentences.txt, or None
    bpc,           \* "idle" | "call" | "selected" | "parsed" | "loop" | "returned"
    java_file_path,  \* raid_pipeline: args.file
    disk_files,    \* the paths that name a file
    disk_dirs,     \* the paths that name a directory
    stdout,        \* what main has printed
    exit_code,     \* <<>> while main runs, <<n>> once the process has ended
    made_dir,      \* os.makedirs has been called
    ast_done,      \* process_ast has been called
    activations_done,  \* process_activations has been called
    patterns_done, \* the pattern extractor has been called
    written,       \* the paths of the files written
    main_error,    \* the exception that ended main, if any
    mpc,           \* main's position
    source_file,   \* generate_in_label_bio_files: the source and its tokens
    csv_files,     \* the .csv paths that name a file
    csv_before,    \* history: csv_files when the run began
    csv_rows,      \* the rows of <file_name>.csv
    strings,       \* the local strings, bound or not
    labelled,      \* get_all_bio_labels calls of this run
    runs,          \* runs that have returned
    gen_error,     \* the exception that ended the run, if any
    first_run,     \* history: the three outputs after the first run
    gpc,           \* generate_in_label_bio_files' position
    ann_entry,     \* the ActivationAnnotator method that was called
    binary_filter, \* self.binary_filter
    binary_filter_compiled,  \* self.binary_filter_compiled
    compiled_before,  \* history: binary_filter_compiled before the call
    aggregation_method,  \* self.aggregation_method, or the method argument
    activations,   \* the activation vectors of one token
    n_tokens,      \* len(tokens_tuples)
    aggregated,    \* aggregate_activation_list's result
    ann_error,     \* the exception that ended the call, if any
    ann_files,     \* the files the call has written
    apc            \* the annotator's position

vars == <<string, tokens, labels, pc, calls, lines, li, prev, token_index,
          decreased, count, file_in, file_labels, file_bio, groups,
          raw_label, canonical, again, lpc, name_token, category, cpc,
          entry, language, grammar, ast, leaf_nodes, leaf_tokens, bi,
          bio_prev, o_type, bio, leaf_labels, table, printed, input_sentences,
          bpc,
          java_file_path, disk_files, disk_dirs, stdout, exit_code, made_dir,
          ast_done, activations_done, patterns_done, written, main_error, mpc,
          source_file, csv_files, csv_before, csv_rows, strings, labelled,
          runs, gen_error, first_run, gpc,
          ann_entry, binary_filter, binary_filter_compiled, compiled_before,
          aggregation_method, activations, n_tokens, aggregated, ann_error,
          ann_files, apc>>

inputs == <<string, tokens, labels>>
locals == <<lines, li, prev, token_index, decreased, count>>
files == <<file_in, file_labels, file_bio>>
conv == <<raw_label, canonical, again, lpc>>
cls == <<name_token, category, cpc>>
wf == <<inputs, pc, calls, locals, files, groups>>
mainv == <<java_file_path, disk_files, disk_dirs, stdout, exit_code, made_dir,
           ast_done, activations_done, patterns_done, written, main_error, mpc>>
biov == <<entry, language, grammar, ast, leaf_nodes, leaf_tokens, bi, bio_prev,
          o_type, bio, leaf_labels, table, printed, input_sentences, bpc>>
genv == <<source_file, csv_files, csv_before, csv_rows, strings, labelled,
          runs, gen_error, first_run, gpc>>
annv == <<ann_entry, binary_filter, binary_filter_compiled, compiled_before,
          aggregation_method, activations, n_tokens, aggregated, ann_error,
          ann_files, apc>>
\* the state that write_file leaves alone
outside_wf == <<conv, cls, biov, mainv, genv, annv>>
\* the state that convert_label leaves alone
outside_conv == <<wf, cls, biov, mainv, genv, annv>>
\* the state that find_label_with_regex leaves alone
outside_cls == <<wf, conv, biov, mainv, genv, annv>>
\* the state that the parsing entry points leave alone
outside_bio == <<wf, conv, cls, mainv, genv, annv>>
\* the state that raid_pipeline's main leaves alone: all but its own
\* variables, the parser's tree, the leaf tokens, input_sentences.txt and the
\* compiled filter
outside_main == <<wf, conv, cls, genv, entry, language, leaf_nodes, bi,
                  bio_prev, o_type, bio, leaf_labels, table, printed, bpc,
                  ann_entry, binary_filter, compiled_before,
                  aggregation_method, activations, n_tokens, aggregated,
                  ann_error, ann_files, apc>>
\* the state that generate_in_label_bio_files' own lines leave alone
outside_gen == <<conv, cls, biov, mainv, annv>>
\* the state that the ActivationAnnotator leaves alone
outside_ann == <<wf, conv, cls, biov, mainv, genv>>

\* a local that no statement has bound yet, and one bound to v
NotBound == [bound |-> FALSE, value |-> <<>>]
Bound(v) == [bound |-> TRUE, value |-> v]

\* None, and Some(v) for any other value of an attribute
None == <<>>
Some(v) == <<v>>

\* no generate_in_label_bio_files run is under way
IdleGen ==
    /\ source_file = [string |-> <<>>, tokens |-> <<>>]
    /\ csv_files = {}
    /\ csv_before = {}
    /\ csv_rows = <<>>
    /\ strings = NotBound
    /\ labelled = 0
    /\ runs = 0
    /\ gen_error = "none"
    /\ first_run = <<>>
    /\ gpc = "idle"

\* no ActivationAnnotator method has been called
IdleAnn ==
    /\ ann_entry = "none"
    /\ binary_filter = <<>>
    /\ binary_filter_compiled = None
    /\ compiled_before = None
    /\ aggregation_method = <<>>
    /\ activations = <<>>
    /\ n_tokens = 0
    /\ aggregated = None
    /\ ann_error = "none"
    /\ ann_files = {}
    /\ apc = "idle"

\* no find_label_with_regex call is under way
IdleCls ==
    /\ name_token = <<>>
    /\ category = "none"
    /\ cpc = "idle"

\* raid_pipeline's main is not running
IdleMain ==
    /\ java_file_path = <<>>
    /\ disk_files = {}
    /\ disk_dirs = {}
    /\ stdout = <<>>
    /\ exit_code = <<>>
    /\ made_dir = FALSE
    /\ ast_done = FALSE
    /\ activations_done = FALSE
    /\ patterns_done = FALSE
    /\ written = {}
    /\ main_error = "none"
    /\ mpc = "idle"

\* no parsing entry point has been called
IdleBio ==
    /\ entry = "none"
    /\ language = "none"
    /\ grammar = "none"
    /\ ast = [parent |-> <<>>, type |-> <<>>, text |-> <<>>]
    /\ leaf_nodes = <<>>
    /\ leaf_tokens = <<>>
    /\ bi = 0
    /\ bio_prev = <<>>
    /\ o_type = <<>>
    /\ bio = <<>>
    /\ leaf_labels = <<>>
    /\ table = <<>>
    /\ printed = <<>>
    /\ input_sentences = None
    /\ bpc = "idle"

Init ==
    /\ \E x \in Inputs :
          /\ string = x.string
          /\ tokens = x.tokens
          /\ labels = LabelsFor(x.tokens)
    /\ pc = "start"
    /\ calls = 0
    /\ lines = <<>>
    /\ li = 0
    /\ prev = 0
    /\ token_index = 0
    /\ decreased = FALSE
    /\ count = Unbound
    /\ file_in = Stale
    /\ file_labels = Stale
    /\ file_bio = Stale
    /\ groups = <<>>
    /\ raw_label = <<>>
    /\ canonical = <<>>
    /\ again = <<>>
    /\ lpc = "idle"
    /\ IdleCls
    /\ IdleBio
    /\ IdleMain
    /\ IdleGen
    /\ IdleAnn

\* ------------------------------------------------------------------------
\* Operations
\* ------------------------------------------------------------------------
\* generate_in_label_bio_files, lines 99-103: the three outputs are opened
\* with mode 'w' and closed again
GenerateTruncate ==
    /\ pc = "start"
    /\ file_in' = <<>>
    /\ file_labels' = <<>>
    /\ file_bio' = <<>>
    /\ pc' = "ready"
    /\ UNCHANGED <<inputs, locals, calls, groups, outside_wf>>

\* write_file, lines 46-52: .in and .label are opened with mode 'a', .bio
\* with mode 'w'
WriteFileOpen ==
    /\ pc = "ready"
    /\ calls < MaxCalls
    /\ decreased' = FALSE
    /\ prev' = 0
    /\ file_bio' = <<>>
    /\ lines' = Split(string, NL)
    /\ token_index' = 0
    /\ li' = 0
    /\ count' = Unbound
    /\ groups' = <<>>
    /\ pc' = "loop"
    /\ UNCHANGED <<inputs, calls, file_in, file_labels, outside_wf>>

\* an empty line that takes the next token with it
BlankLineConsuming ==
    /\ pc = "loop"
    /\ li < Len(lines)
    /\ lines[li + 1] = <<>>
    /\ file_in' = file_in \o <<NL>>
    /\ file_labels' = file_labels \o <<NL>>
    /\ file_bio' = file_bio \o <<NL>>
    /\ li' = li + 1
    /\ prev' = prev + 1
    /\ groups' = Append(groups,
                    [blank |-> TRUE, first |-> prev, written |-> <<>>,
                     starts |-> <<>>, failed |-> FALSE])
    /\ UNCHANGED <<inputs, pc, calls, lines, token_index, decreased,
                   count, outside_wf>>

\* write_file, lines 54-58: an empty line
BlankLine ==
    /\ pc = "loop"
    /\ li < Len(lines)
    /\ lines[li + 1] = <<>>
    /\ file_in' = file_in \o <<NL>>
    /\ file_labels' = file_labels \o <<NL>>
    /\ file_bio' = file_bio \o <<NL>>
    /\ li' = li + 1
    /\ groups' = Append(groups,
                    [blank |-> TRUE, first |-> prev, written |-> <<>>,
                     starts |-> <<>>, failed |-> FALSE])
    /\ UNCHANGED <<inputs, pc, calls, lines, prev, token_index, decreased,
                   count, outside_wf>>

\* write_file, lines 59-79: a non-empty line
ScanLine ==
    /\ pc = "loop"
    /\ li < Len(lines)
    /\ lines[li + 1] # <<>>
    /\ LET r  == scan(lines[li + 1], tokens, prev, 0, token_index, <<>>)
           c0 == IF r.iterated THEN r.count ELSE count
           c  == adjust(c0, r.decreased)
           js == zipped(tokens, labels, prev, c)
       IN  /\ c0 # Unbound
           /\ file_in' = file_in \o in_text(tokens, js)
           /\ file_labels' = file_labels \o label_text(labels, js)
           /\ file_bio' = file_bio \o bio_text(labels, js)
           /\ prev' = next_prev(prev, c)
           /\ count' = c
           /\ groups' = Append(groups,
                           [blank |-> FALSE, first |-> prev, written |-> js,
                            starts |-> r.starts, failed |-> r.failed])
    /\ token_index' = 0
    /\ decreased' = FALSE
    /\ li' = li + 1
    /\ UNCHANGED <<inputs, pc, calls, lines, outside_wf>>

\* write_file, line 68 when no enumerate() iteration has ever bound count:
\* reading it raises UnboundLocalError, which leaves write_file (the with
\* statement closes the three files)
ScanLineRaise ==
    /\ pc = "loop"
    /\ li < Len(lines)
    /\ lines[li + 1] # <<>>
    /\ LET r == scan(lines[li + 1], tokens, prev, 0, token_index, <<>>)
       IN  /\ ~r.iterated
           /\ count = Unbound
    /\ pc' = "raised"
    /\ UNCHANGED <<inputs, calls, locals, files, groups, outside_wf>>

\* write_file, the for loop over lines is exhausted: the files are closed and
\* the call returns
WriteFileReturn ==
    /\ pc = "loop"
    /\ li = Len(lines)
    /\ pc' = "ready"
    /\ calls' = calls + 1
    /\ UNCHANGED <<inputs, locals, files, groups, outside_wf>>

Next ==
    \/ GenerateTruncate
    \/ WriteFileOpen
    \/ BlankLine
    \/ ScanLine
    \/ ScanLineRaise
    \/ WriteFileReturn

Spec == Init /\ [][Next]_vars

\* ------------------------------------------------------------------------
\* Label canonicalisation as a specification of its own
\* ------------------------------------------------------------------------
Keys == DOMAIN label_types

\* str.capitalize() restricted to the first character's case
FirstUpper(s) == IF s = <<>> THEN s ELSE upper(SubSeq(s, 1, 1)) \o Tail(s)

\* node-type names that are not in the table
Unmapped ==
    { <<>>,
      <<"c", "l", "a", "s", "s", "_", "b", "o", "d", "y">>,
      <<"P", "r", "o", "g", "r", "a", "m">>,
      <<"i", "f">>,
      <<"E", "R", "R", "O", "R">>,
      <<"l", "i", "n", "e", "_", "c", "o", "m", "m", "e", "n", "t">>,
      <<"+", "+", "+">>,
      <<"p", "u", "b", "l", "i", "c", SP>>,
      <<"x", "1">> }

\* labels with a letter outside ASCII: 'publ\u0131c', '\u0131dentifier',
\* 'fal\u017fe', '\u017ftring'
NonAsciiLabels ==
    { <<"p", "u", "b", "l", DotlessI, "c">>,
      <<DotlessI, "d", "e", "n", "t", "i", "f", "i", "e", "r">>,
      <<"f", "a", "l", LongS, "e">>,
      <<LongS, "t", "r", "i", "n", "g">> }

LabelInputs ==
    Keys \cup {upper(k) : k \in Keys} \cup {FirstUpper(k) : k \in Keys}
         \cup {label_types[k] : k \in Keys} \cup Unmapped \cup NonAsciiLabels

InitLabel ==
    /\ string = <<>>
    /\ tokens = <<>>
    /\ labels = <<>>
    /\ pc = "start"
    /\ calls = 0
    /\ lines = <<>>
    /\ li = 0
    /\ prev = 0
    /\ token_index = 0
    /\ decreased = FALSE
    /\ count = Unbound
    /\ file_in = <<>>
    /\ file_labels = <<>>
    /\ file_bio = <<>>
    /\ groups = <<>>
    /\ raw_label \in LabelInputs
    /\ canonical = <<>>
    /\ again = <<>>
    /\ lpc = "call"
    /\ IdleCls
    /\ IdleBio
    /\ IdleMain
    /\ IdleGen
    /\ IdleAnn

\* one call of LabelDictionary.convert_label
ConvertLabel ==
    /\ lpc = "call"
    /\ canonical' = convert_label(raw_label)
    /\ lpc' = "returned"
    /\ UNCHANGED <<outside_conv, raw_label, again>>

\* convert_label applied to the label it returned
ConvertAgain ==
    /\ lpc = "returned"
    /\ again' = convert_label(canonical)
    /\ lpc' = "twice"
    /\ UNCHANGED <<outside_conv, raw_label, canonical>>

NextLabel ==
    \/ ConvertLabel
    \/ ConvertAgain

SpecLabel == InitLabel /\ [][NextLabel]_vars

\* ------------------------------------------------------------------------
\* Naming-convention classifier (extract_patterns.py)
\* ------------------------------------------------------------------------
MaxNameLen == 5

AsciiLower == DOMAIN ToUpper \ {DotlessI, LongS}
AsciiUpper == DOMAIN ToLower
AsciiLetter == AsciiLower \cup AsciiUpper
Digit == {"0", "1", "2", "3", "4", "5", "6", "7", "8", "9"}

\* the constructs of the regular expressions in use: ^, $, a literal, a
\* character class, the dot, concatenation, alternation, ?, * and +
Bol == [op |-> "bol"]
Eol == [op |-> "eol"]
Dot == [op |-> "dot"]
Lit(t) == [op |-> "lit", text |-> t]
Cls(S) == [op |-> "class", set |-> S]
Cat(ps) == [op |-> "cat", parts |-> ps]
Alt(ps) == [op |-> "alt", parts |-> ps]
Opt(r) == [op |-> "opt", r |-> r]
Star(r) == [op |-> "star", r |-> r]
Plus(r) == [op |-> "plus", r |-> r]

\* the positions (0-based, as many characters consumed) where a match of r
\* that starts at position i of s can end, in the semantics of Python's re
\* without flags: ^ matches at the start of the string, $ at the end of the
\* string and just before a line break that ends the string, and the dot
\* matches any character but a line break
RECURSIVE Ends(_, _, _)
RECURSIVE CatEnds(_, _, _)
RECURSIVE StarEnds(_, _, _, _)
Ends(r, s, i) ==
    CASE r.op = "bol" -> IF i = 0 THEN {i} ELSE {}
      [] r.op = "eol" -> IF \/ i = Len(s)
                            \/ i = Len(s) - 1 /\ s[Len(s)] = NL
                         THEN {i} ELSE {}
      [] r.op = "dot" -> IF i < Len(s) /\ s[i + 1] # NL THEN {i + 1} ELSE {}
      [] r.op = "class" -> IF i < Len(s) /\ s[i + 1] \in r.set THEN {i + 1} ELSE {}
      [] r.op = "lit" -> IF /\ i + Len(r.text) <= Len(s)
                            /\ SubSeq(s, i + 1, i + Len(r.text)) = r.text
                         THEN {i + Len(r.text)} ELSE {}
      [] r.op = "cat" -> CatEnds(r.parts, s, {i})
      [] r.op = "alt" -> UNION {Ends(r.parts[k], s, i) : k \in 1..Len(r.parts)}
      [] r.op = "opt" -> {i} \cup Ends(r.r, s, i)
      [] r.op = "star" -> StarEnds(r.r, s, {i}, {i})
      [] r.op = "plus" -> StarEnds(r.r, s, Ends(r.r, s, i), Ends(r.r, s, i))

CatEnds(parts, s, from) ==
    IF parts = <<>> THEN from
    ELSE CatEnds(Tail(parts), s, UNION {Ends(Head(parts), s, j) : j \in from})

StarEnds(r, s, seen, frontier) ==
    LET more == UNION {Ends(r, s, j) : j \in frontier} \ seen
    IN  IF more = {} THEN seen ELSE StarEnds(r, s, seen \cup more, more)

\* re.match(pattern, token): a match that starts at position 0, or None
match(pattern, token) == Ends(pattern, token, 0) # {}

\* the same patterns without their trailing $; kept apart so that the
\* patterns of cases are the source's
single_letter_body == <<Bol, Cls(AsciiLetter)>>
camel_case_body ==
    <<Bol, Cls(AsciiLower), Star(Cls(AsciiLower)),
      Star(Cat(<<Cls(AsciiUpper), Plus(Cls(AsciiLower \cup Digit))>>)),
      Opt(Cls(AsciiLetter))>>
pascal_case_body ==
    <<Bol, Star(Cat(<<Cls(AsciiUpper), Plus(Cls(AsciiLower))>>)),
      Cls(AsciiUpper), Star(Cls(AsciiLower))>>
snake_case_body ==
    <<Bol, Plus(Cls(AsciiLower)),
      Star(Cat(<<Lit(<<"_">>), Plus(Cls(AsciiLower))>>))>>
screaming_snake_case_body ==
    <<Bol, Plus(Cls(AsciiUpper)),
      Star(Cat(<<Lit(<<"_">>), Plus(Cls(AsciiUpper))>>))>>
prefix_body ==
    <<Bol, Alt(<<Lit(<<"g", "e", "t">>), Lit(<<"s", "e", "t">>)>>),
      Plus(Cls(AsciiLetter))>>
numeric_body == <<Bol, Cls(AsciiLetter), Plus(Dot), Plus(Cls(Digit))>>

\* cases: the naming conventions and their patterns, in the order of the
\* dictionary
cases ==
    <<[key |-> "single_letter", pattern |-> Cat(single_letter_body \o <<Eol>>)],
      [key |-> "camel_case", pattern |-> Cat(camel_case_body \o <<Eol>>)],
      [key |-> "pascal_case", pattern |-> Cat(pascal_case_body \o <<Eol>>)],
      [key |-> "snake_case", pattern |-> Cat(snake_case_body \o <<Eol>>)],
      [key |-> "screaming_snake_case",
       pattern |-> Cat(screaming_snake_case_body \o <<Eol>>)],
      [key |-> "prefix", pattern |-> Cat(prefix_body \o <<Eol>>)],
      [key |-> "numeric", pattern |-> Cat(numeric_body \o <<Eol>>)]>>

\* check_token(token, regex), regex being the position of the key in cases
check_token(token, k) == match(cases[k].pattern, token)

\* find_label_with_regex: the key of the first pattern that matches, else
\* 'N/A'
find_label_with_regex(token) ==
    LET hits == {k \in 1..Len(cases) : check_token(token, k)}
    IN  IF hits = {} THEN "N/A" ELSE cases[Min(hits)].key

\* identifiers handed to the classifier: every text over a small alphabet
\* that reaches each convention, and some longer names
NameInputs ==
    SeqsUpTo({"g", "e", "t", "X", "_", "1", NL}, MaxNameLen) \cup
    {<<"x", "1", "y", "2">>,
     <<"g", "e", "t", "N", "a", "m", "e">>,
     <<"s", "e", "t", "X", "Y">>,
     <<"M", "A", "X", "_", "L", "E", "N">>,
     <<"m", "y", "_", "v", "a", "r">>,
     <<"M", "y", "C", "l", "a", "s", "s">>,
     <<"a", " ", "1">>,
     <<"a", "-", "b">>}

\* no write_file call and no convert_label call is under way
IdleWf ==
    /\ string = <<>>
    /\ tokens = <<>>
    /\ labels = <<>>
    /\ pc = "start"
    /\ calls = 0
    /\ lines = <<>>
    /\ li = 0
    /\ prev = 0
    /\ token_index = 0
    /\ decreased = FALSE
    /\ count = Unbound
    /\ file_in = <<>>
    /\ file_labels = <<>>
    /\ file_bio = <<>>
    /\ groups = <<>>

IdleConv ==
    /\ raw_label = <<>>
    /\ canonical = <<>>
    /\ again = <<>>
    /\ lpc = "idle"

InitClassify ==
    /\ IdleWf
    /\ IdleConv
    /\ name_token \in NameInputs
    /\ category = "none"
    /\ cpc = "call"
    /\ IdleBio
    /\ IdleMain
    /\ IdleGen
    /\ IdleAnn

FindLabelWithRegex ==
    /\ cpc = "call"
    /\ category' = find_label_with_regex(name_token)
    /\ cpc' = "returned"
    /\ UNCHANGED <<outside_cls, name_token>>

NextClassify == FindLabelWithRegex

SpecClassify == InitClassify /\ [][NextClassify]_vars

\* ------------------------------------------------------------------------
\* Syntax trees, leaf extraction and BIO labelling (extract_patterns.py,
\* bio_patterns.py, raid/ast_token_activator.py)
\* ------------------------------------------------------------------------
MaxNodes == 5

\* A syntax tree as the parser hands it over: the nodes are 1..n, node 1 is
\* the root, parent[i] is the parent of node i (0 for the root) and the
\* children of a node are ordered by their number; type[i] is node.type and
\* text[i] the characters of node.text (read for childless nodes only).
NoTree == [parent |-> <<>>, type |-> <<>>, text |-> <<>>]

\* node types of the Java and Python grammars that the trees are built from
TypeProgram == <<"p", "r", "o", "g", "r", "a", "m">>
TypeExpressionStatement == <<"e", "x", "p", "r", "e", "s", "s", "i", "o", "n", "_", "s", "t", "a", "t", "e", "m", "e", "n", "t">>
TypeBlock == <<"b", "l", "o", "c", "k">>
TypeIdentifier == <<"i", "d", "e", "n", "t", "i", "f", "i", "e", "r">>
TypeDecimalIntegerLiteral == <<"d", "e", "c", "i", "m", "a", "l", "_", "i", "n", "t", "e", "g", "e", "r", "_", "l", "i", "t", "e", "r", "a", "l">>
Semicolon == <<";">>

RECURSIVE Ascending(_)
Ascending(S) == IF S = {} THEN <<>> ELSE <<Min(S)>> \o Ascending(S \ {Min(S)})

\* node.children, node.child_count, node.parent
children(t, node) == Ascending({c \in 1..Len(t.parent) : t.parent[c] = node})
child_count(t, node) == Len(children(t, node))

\* a child lookup that ignores the index and answers the first child
child_first(t, node, k) == children(t, node)[1]

\* node.child(k), k from 0
child(t, node, k) == children(t, node)[k + 1]

\* get_nodes_at_level: the nodes target_level levels below node, and the
\* childless nodes above that level, in the order of the children.  The
\* variant before it walks the children from the last to the first.
RECURSIVE get_nodes_at_level_reversed(_, _, _, _)
get_nodes_at_level_reversed(t, node, target_level, current_level) ==
    IF current_level = target_level \/ child_count(t, node) = 0
    THEN <<node>>
    ELSE Flatten([k \in 1..child_count(t, node) |->
                    get_nodes_at_level_reversed(
                        t, children(t, node)[child_count(t, node) + 1 - k],
                        target_level, current_level + 1)])

RECURSIVE get_nodes_at_level(_, _, _, _)
get_nodes_at_level(t, node, target_level, current_level) ==
    IF current_level = target_level \/ child_count(t, node) = 0
    THEN <<node>>
    ELSE Flatten([k \in 1..child_count(t, node) |->
                    get_nodes_at_level(t, children(t, node)[k], target_level,
                                       current_level + 1)])

\* the default of the depth / target_level parameter
DefaultLevel == -1

\* JavaASTProcessor.extract_leaf_tokens: (node.type, node.text, depth) of
\* every childless node; the field node tells which node the triple was made
\* from.  The variant before it gives the children of a node the node's depth.
RECURSIVE extract_leaf_tokens_flat(_, _, _)
extract_leaf_tokens_flat(t, node, depth) ==
    IF Len(children(t, node)) = 0
    THEN <<[node |-> node, type |-> t.type[node], text |-> t.text[node],
            depth |-> depth]>>
    ELSE Flatten([k \in 1..Len(children(t, node)) |->
                    extract_leaf_tokens_flat(t, children(t, node)[k], depth)])

RECURSIVE extract_leaf_tokens(_, _, _)
extract_leaf_tokens(t, node, depth) ==
    IF Len(children(t, node)) = 0
    THEN <<[node |-> node, type |-> t.type[node], text |-> t.text[node],
            depth |-> depth]>>
    ELSE Flatten([k \in 1..Len(children(t, node)) |->
                    extract_leaf_tokens(t, children(t, node)[k], depth + 1)])

\* str(b): b' or b", the bytes with backslash, line break and, between
\* single quotes, the single quote escaped, and the closing quote
bytes_str(b) ==
    LET chars == {b[i] : i \in 1..Len(b)}
        q == IF "'" \in chars /\ "\"" \notin chars THEN "\"" ELSE "'"
        esc(c) == CASE c = "\\" -> <<"\\", "\\">>
                    [] c = NL -> <<"\\", "n">>
                    [] c = "'" /\ q = "'" -> <<"\\", "'">>
                    [] OTHER -> <<c>>
    IN  <<"b", q>> \o Flatten([i \in 1..Len(b) |-> esc(b[i])]) \o <<q>>

\* str(node.text)[2:-1]
leaf_text(t, node) ==
    Slice(bytes_str(t.text[node]), 2, Len(bytes_str(t.text[node])) - 1)

\* find_bio_label_type: the parent's type for a node whose type is its text
\* or is 'identifier', if it has a parent; else the node's own type.  The
\* variant before it gives the parent's type for every node that has a parent.
find_bio_label_type_parent(t, node) ==
    IF t.parent[node] # 0 THEN t.type[t.parent[node]] ELSE t.type[node]

find_bio_label_type(t, node) ==
    IF /\ t.type[node] = leaf_text(t, node) \/ t.type[node] = TypeIdentifier
       /\ t.parent[node] # 0
    THEN t.type[t.parent[node]]
    ELSE t.type[node]

\* str.split(sep) for a separator of one or more characters
RECURSIVE SplitOn(_, _)
SplitOn(s, sep) ==
    LET at == Find(s, sep, 0)
    IN  IF at = -1 THEN <<s>>
        ELSE <<SubSeq(s, 1, at)>> \o SplitOn(SubSeq(s, at + Len(sep) + 1, Len(s)), sep)

\* the trees the parser can hand over: every shape of at most MaxNodes
\* nodes; the root is a program (Java) or a module (Python), an inner node a
\* statement or a block, a childless node an identifier, a number literal
\* or the anonymous token ;
Shapes ==
    UNION {{p \in [1..n -> 0..(n - 1)] :
                /\ p[1] = 0
                /\ \A i \in 2..n : p[i] \in 1..(i - 1)} : n \in 1..MaxNodes}

RootType(g) ==
    IF g = "java" THEN TypeProgram ELSE <<"m", "o", "d", "u", "l", "e">>
NumberType(g) ==
    IF g = "java" THEN TypeDecimalIntegerLiteral
    ELSE <<"i", "n", "t", "e", "g", "e", "r">>

NodeKinds(p, i, g) ==
    IF i = 1 THEN {[type |-> RootType(g), text |-> <<>>]}
    ELSE IF \E c \in 1..Len(p) : p[c] = i
    THEN {[type |-> TypeExpressionStatement, text |-> <<>>],
          [type |-> TypeBlock, text |-> <<>>]}
    ELSE {[type |-> TypeIdentifier, text |-> <<"x">>],
          [type |-> NumberType(g), text |-> <<"1">>],
          [type |-> Semicolon, text |-> Semicolon]}

RECURSIVE Labelings(_, _, _)
Labelings(p, k, g) ==
    IF k = 0 THEN {<<>>}
    ELSE {Append(l, x) : l \in Labelings(p, k - 1, g), x \in NodeKinds(p, k, g)}

TreesOf(p, g) ==
    {[parent |-> p,
      type |-> [i \in 1..Len(p) |-> l[i].type],
      text |-> [i \in 1..Len(p) |-> l[i].text]] : l \in Labelings(p, Len(p), g)}

Trees(g) == UNION {TreesOf(p, g) : p \in Shapes}

\* os.path.join(a, b) for a relative path b
path_join(a, b) ==
    IF a = <<>> \/ a[Len(a)] = "/" THEN a \o b ELSE a \o <<"/">> \o b

\* the output directory: 'output' in the directory of the script, which is
\* the directory the paths of the model are relative to
OutputDir == <<"o", "u", "t", "p", "u", "t">>

\* str(n) of a number n >= 0
RECURSIVE int_str(_)
int_str(n) ==
    LET digits == <<"0", "1", "2", "3", "4", "5", "6", "7", "8", "9">>
    IN  IF n < 10 THEN <<digits[n + 1]>>
        ELSE int_str(n \div 10) \o <<digits[(n % 10) + 1]>>

\* write_tokens_to_file on self.tokens_tuples = tuples and self.tokens, their
\* texts: the path and the content of input_sentences.txt, the texts joined
\* by blanks, and the lines printed, two and then one for each token
write_tokens_to_file(tuples, output_dir) ==
    LET input_file == path_join(output_dir, <<"i", "n", "p", "u", "t", "_", "s", "e", "n", "t", "e", "n", "c", "e", "s", ".", "t", "x", "t">>)
    IN  [path |-> input_file,
         content |->
            Flatten([k \in 1..Len(tuples) |->
                        IF k = 1 THEN tuples[k].text
                        ELSE <<SP>> \o tuples[k].text]) \o <<NL>>,
         printed |->
            <<<<"T", "o", "k", "e", "n", "s", SP, "w", "r", "i", "t", "t", "e", "n", SP, "t", "o", SP, "'">>
                  \o input_file \o <<"'", ".">>,
              <<"E", "x", "t", "r", "a", "c", "t", "e", "d", SP, "T", "o", "k", "e", "n", "s", ":">>>>
            \o [k \in 1..Len(tuples) |->
                    <<"T", "y", "p", "e", ":", SP>> \o tuples[k].type
                        \o <<",", SP, "T", "e", "x", "t", ":", SP>> \o tuples[k].text
                        \o <<",", SP, "D", "e", "p", "t", "h", ":", SP>> \o int_str(tuples[k].depth)]]

\* the entry points that parse a source text
Extract == "extract_bio_labels_from_source_code"
BioLabelStr == "bio_label_str"
ProcessAst == "JavaASTProcessor.process_ast"

PickLanguage ==
    <<"P", "l", "e", "a", "s", "e", " ", "p", "i", "c", "k", " ", "J", "a", "v", "a", " ", "o", "r", " ", "P",
      "y", "t", "h", "o", "n", " ", "a", "s", " ", "a", " ", "l", "a", "n", "g", "u", "a", "g", "e", ".">>

InitBio ==
    /\ IdleWf
    /\ IdleConv
    /\ IdleCls
    /\ entry \in {Extract, BioLabelStr, ProcessAst}
    /\ language \in IF entry = ProcessAst THEN {"java"}
                    ELSE {"java", "python", "c"}
    /\ grammar = "none"
    /\ ast = NoTree
    /\ leaf_nodes = <<>>
    /\ leaf_tokens = <<>>
    /\ bi = 0
    /\ bio_prev = <<>>
    /\ o_type = <<>>
    /\ bio = <<>>
    /\ leaf_labels = <<>>
    /\ table = <<>>
    /\ printed = <<>>
    /\ input_sentences = None
    /\ bpc = "call"
    /\ IdleMain
    /\ IdleGen
    /\ IdleAnn

\* extract_bio_labels_from_source_code, lines 82-85: the grammar of the
\* language asked for
SelectGrammarExtract ==
    /\ bpc = "call"
    /\ entry = Extract
    /\ language \in {"java", "python"}
    /\ grammar' = language
    /\ bpc' = "selected"
    /\ UNCHANGED <<outside_bio, entry, language, ast, leaf_nodes, leaf_tokens,
                   bi, bio_prev, o_type, bio, leaf_labels, table, printed,
                   input_sentences>>

\* extract_bio_labels_from_source_code, lines 86-88: any other language
\* prints a message and returns None
RejectLanguage ==
    /\ bpc = "call"
    /\ entry = Extract
    /\ language \notin {"java", "python"}
    /\ printed' = Append(printed, PickLanguage)
    /\ bpc' = "returned"
    /\ UNCHANGED <<outside_bio, entry, language, grammar, ast, leaf_nodes,
                   leaf_tokens, bi, bio_prev, o_type, bio, leaf_labels, table,
                   input_sentences>>

\* bio_label_str, lines 31-34: the Java grammar for 'java', the Python
\* grammar for every other language
SelectGrammarBio ==
    /\ bpc = "call"
    /\ entry = BioLabelStr
    /\ grammar' = IF language = "java" THEN "java" ELSE "python"
    /\ bpc' = "selected"
    /\ UNCHANGED <<outside_bio, entry, language, ast, leaf_nodes, leaf_tokens,
                   bi, bio_prev, o_type, bio, leaf_labels, table, printed,
                   input_sentences>>

\* JavaASTProcessor.__init__: a parser of the Java grammar
NewJavaASTProcessor ==
    /\ bpc = "call"
    /\ entry = ProcessAst
    /\ grammar' = "java"
    /\ bpc' = "selected"
    /\ UNCHANGED <<outside_bio, entry, language, ast, leaf_nodes, leaf_tokens,
                   bi, bio_prev, o_type, bio, leaf_labels, table, printed,
                   input_sentences>>

\* parser.parse(source_code): some tree of the selected grammar
Parse ==
    /\ bpc = "selected"
    /\ ast' \in Trees(grammar)
    /\ bpc' = "parsed"
    /\ UNCHANGED <<outside_bio, entry, language, grammar, leaf_nodes,
                   leaf_tokens, bi, bio_prev, o_type, bio, leaf_labels, table,
                   printed,
                   input_sentences>>

\* leaf_nodes = get_nodes_at_level(root_node, depth), and the loop's
\* variables
GetNodesAtLevel ==
    /\ bpc = "parsed"
    /\ entry \in {Extract, BioLabelStr}
    /\ leaf_nodes' = get_nodes_at_level(ast, 1, DefaultLevel, 0)
    /\ bi' = 0
    /\ bio_prev' = <<>>
    /\ o_type' = <<>>
    /\ bio' = <<>>
    /\ leaf_labels' = <<>>
    /\ bpc' = "loop"
    /\ UNCHANGED <<outside_bio, entry, language, grammar, ast, leaf_tokens,
                   table, printed,
                   input_sentences>>

\* process_ast, lines 35-37: tokens_tuples = extract_leaf_tokens(), the
\* texts of the tokens, and write_tokens_to_file() into an output directory
\* that exists
ExtractLeafTokens ==
    /\ bpc = "parsed"
    /\ entry = ProcessAst
    /\ leaf_tokens' = extract_leaf_tokens(ast, 1, 0)
    /\ LET w == write_tokens_to_file(extract_leaf_tokens(ast, 1, 0), OutputDir)
       IN  /\ input_sentences' = Some(w.content)
           /\ printed' = printed \o w.printed
    /\ bpc' = "returned"
    /\ UNCHANGED <<outside_bio, entry, language, grammar, ast, leaf_nodes, bi,
                   bio_prev, o_type, bio, leaf_labels, table>>

\* one turn of the labelling loop, for leaf_nodes[bi]; None is the empty
\* sequence and a name n the sequence <<n>>
TagLeaf ==
    /\ bpc = "loop"
    /\ bi < Len(leaf_nodes)
    /\ LET node == leaf_nodes[bi + 1]
           name == find_bio_label_type(ast, node)
           text == leaf_text(ast, node)
           up == ast.parent[node]
       IN  /\ leaf_labels' =
                IF entry = Extract
                THEN Append(leaf_labels,
                            IF ast.type[node] = TypeIdentifier
                            THEN find_label_with_regex(text) ELSE "N/A")
                ELSE leaf_labels
           /\ IF /\ ast.type[node] = text
                 /\ bi > 0
                 /\ bio_prev # <<name>> \/ o_type = <<>>
              THEN /\ bio' = Append(bio,
                        IF \/ language = "python" /\ child_count(ast, up) = 2
                           \/ /\ language = "java"
                              /\ child_count(ast, up) = 3
                              /\ ast.type[child(ast, up, 2)] = Semicolon
                        THEN text \o <<":", " ", "B", "-">> \o name
                        ELSE text \o <<":", " ", "O", "-">> \o name)
                   /\ bio_prev' = <<>>
                   /\ o_type' = <<name>>
              ELSE /\ bio' = Append(bio,
                        text \o <<":", " ">>
                             \o (IF bio_prev # <<name>> THEN <<"B">> ELSE <<"I">>)
                             \o <<"-">> \o name)
                   /\ bio_prev' = <<name>>
                   /\ o_type' = <<>>
    /\ bi' = bi + 1
    /\ UNCHANGED <<outside_bio, entry, language, grammar, ast, leaf_nodes,
                   leaf_tokens, table, printed,
                   input_sentences, bpc>>

\* extract_bio_labels_from_source_code, lines 118-131: the elements split
\* on ": " into the TOKEN and LABEL columns of the printed table
PrintDataFrame ==
    /\ bpc = "loop"
    /\ bi = Len(leaf_nodes)
    /\ entry = Extract
    /\ table' = [TOKEN |-> [k \in 1..Len(bio) |-> SplitOn(bio[k], <<":", " ">>)[1]],
                 LABEL |-> [k \in 1..Len(bio) |-> SplitOn(bio[k], <<":", " ">>)[2]],
                 REGEX |-> leaf_labels]
    /\ bpc' = "returned"
    /\ UNCHANGED <<outside_bio, entry, language, grammar, ast, leaf_nodes,
                   leaf_tokens, bi, bio_prev, o_type, bio, leaf_labels, printed,
                   input_sentences>>

\* bio_label_str, lines 62-65: the elements split on ':' and the first two
\* parts printed
PrintRows ==
    /\ bpc = "loop"
    /\ bi = Len(leaf_nodes)
    /\ entry = BioLabelStr
    /\ table' = [TOKEN |-> [k \in 1..Len(bio) |-> Split(bio[k], ":")[1]],
                 LABEL |-> [k \in 1..Len(bio) |-> Split(bio[k], ":")[2]]]
    /\ bpc' = "returned"
    /\ UNCHANGED <<outside_bio, entry, language, grammar, ast, leaf_nodes,
                   leaf_tokens, bi, bio_prev, o_type, bio, leaf_labels, printed,
                   input_sentences>>

NextBio ==
    \/ SelectGrammarExtract
    \/ RejectLanguage
    \/ SelectGrammarBio
    \/ NewJavaASTProcessor
    \/ Parse
    \/ GetNodesAtLevel
    \/ ExtractLeafTokens
    \/ TagLeaf
    \/ PrintDataFrame
    \/ PrintRows

SpecBio == InitBio /\ [][NextBio]_vars

\* ------------------------------------------------------------------------
\* generate_in_label_bio_files
\* ------------------------------------------------------------------------
MaxRuns == 2

\* 'output/' + file_name + '.csv', the path line 105 tests, and
\* file_name + '.csv', the path line 111 opens; file_name already starts
\* with 'output/'
CheckedCsv == "output/output/X.csv"
ReadCsv == "output/X.csv"

\* label_dictionary.non_leaf_types[label_type]: the column of the label type
LabelColumn == 2

\* the rows get_all_bio_labels leaves in <file_name>.csv: a header row, then
\* one row per token with the token first and its label in LabelColumn
get_all_bio_labels(src) ==
    << <<"TOKEN", "LABEL">> >> \o [j \in 1..Len(src.tokens) |->
                        <<src.tokens[j], LabelsFor(src.tokens)[j]>>]

\* read_file: the whole file as the one element of a list
read_file(src) == <<src.string>>

\* lines 111-117: the rows after the first, column by column
csv_tokens(rows) == [j \in 1..(Len(rows) - 1) |-> rows[j + 1][1]]
csv_labels(rows) == [j \in 1..(Len(rows) - 1) |-> rows[j + 1][LabelColumn]]

InitGenerate ==
    /\ string = <<>>
    /\ tokens = <<>>
    /\ labels = <<>>
    /\ pc = "start"
    /\ calls = 0
    /\ lines = <<>>
    /\ li = 0
    /\ prev = 0
    /\ token_index = 0
    /\ decreased = FALSE
    /\ count = Unbound
    /\ file_in = Stale
    /\ file_labels = Stale
    /\ file_bio = Stale
    /\ groups = <<>>
    /\ IdleConv
    /\ IdleCls
    /\ IdleBio
    /\ IdleMain
    /\ IdleAnn
    /\ source_file \in Inputs
    /\ csv_files \in SUBSET {CheckedCsv, ReadCsv}
    /\ csv_before = csv_files
    /\ csv_rows = IF ReadCsv \in csv_files
                  THEN get_all_bio_labels(source_file) ELSE <<>>
    /\ strings = NotBound
    /\ labelled = 0
    /\ runs = 0
    /\ gen_error = "none"
    /\ first_run = <<>>
    /\ gpc = "start"

\* lines 97-103 with the outputs left untouched
GenTruncateNothing ==
    /\ gpc = "start"
    /\ tokens' = <<>>
    /\ labels' = <<>>
    /\ gpc' = "truncated"
    /\ UNCHANGED <<string, pc, calls, locals, files, groups, source_file,
                   csv_files, csv_before, csv_rows, strings, labelled, runs,
                   gen_error, first_run, outside_gen>>

\* lines 95-103: tokens and bio_labels start empty and the three outputs are
\* opened with mode 'w'
GenTruncate ==
    /\ gpc = "start"
    /\ tokens' = <<>>
    /\ labels' = <<>>
    /\ file_in' = <<>>
    /\ file_labels' = <<>>
    /\ file_bio' = <<>>
    /\ gpc' = "truncated"
    /\ UNCHANGED <<string, pc, calls, locals, groups, source_file, csv_files,
                   csv_before, csv_rows, strings, labelled, runs, gen_error,
                   first_run, outside_gen>>

\* lines 105-109 when 'output/' + file_name + '.csv' is not a file: the
\* source is read and labelled, which writes file_name + '.csv'
GenExtract ==
    /\ gpc = "truncated"
    /\ CheckedCsv \notin csv_files
    /\ strings' = Bound(read_file(source_file))
    /\ csv_rows' = get_all_bio_labels(source_file)
    /\ csv_files' = csv_files \cup {ReadCsv}
    /\ labelled' = labelled + 1
    /\ gpc' = "checked"
    /\ UNCHANGED <<wf, source_file, csv_before, runs, gen_error, first_run,
                   outside_gen>>

\* line 105 when 'output/' + file_name + '.csv' is a file: nothing is read
\* and nothing is labelled
GenSkipExtract ==
    /\ gpc = "truncated"
    /\ CheckedCsv \in csv_files
    /\ gpc' = "checked"
    /\ UNCHANGED <<wf, source_file, csv_files, csv_before, csv_rows, strings,
                   labelled, runs, gen_error, first_run, outside_gen>>

\* lines 111-117: the tokens and the labels are read from file_name + '.csv'
GenReadCsv ==
    /\ gpc = "checked"
    /\ ReadCsv \in csv_files
    /\ tokens' = csv_tokens(csv_rows)
    /\ labels' = csv_labels(csv_rows)
    /\ gpc' = "read"
    /\ UNCHANGED <<string, pc, calls, locals, files, groups, source_file,
                   csv_files, csv_before, csv_rows, strings, labelled, runs,
                   gen_error, first_run, outside_gen>>

\* line 111 when file_name + '.csv' is not a file
GenReadCsvRaise ==
    /\ gpc = "checked"
    /\ ReadCsv \notin csv_files
    /\ gen_error' = "FileNotFoundError"
    /\ gpc' = "raised"
    /\ UNCHANGED <<wf, source_file, csv_files, csv_before, csv_rows, strings,
                   labelled, runs, first_run, outside_gen>>

\* line 119 when no statement has bound strings
GenStringsRaise ==
    /\ gpc = "read"
    /\ ~strings.bound
    /\ gen_error' = "UnboundLocalError"
    /\ gpc' = "raised"
    /\ UNCHANGED <<wf, source_file, csv_files, csv_before, csv_rows, strings,
                   labelled, runs, first_run, outside_gen>>

\* lines 119-120 and write_file's lines 46-52: write_file is called with
\* the next element of strings and opens .in and .label with mode 'a', .bio
\* with mode 'w'
GenCallWriteFile ==
    /\ gpc \in {"read", "writing"}
    /\ strings.bound
    /\ pc \in {"start", "ready"}
    /\ calls < Len(strings.value)
    /\ string' = strings.value[calls + 1]
    /\ decreased' = FALSE
    /\ prev' = 0
    /\ file_bio' = <<>>
    /\ lines' = Split(strings.value[calls + 1], NL)
    /\ token_index' = 0
    /\ li' = 0
    /\ count' = Unbound
    /\ groups' = <<>>
    /\ pc' = "loop"
    /\ gpc' = "writing"
    /\ UNCHANGED <<tokens, labels, calls, file_in, file_labels, source_file,
                   csv_files, csv_before, csv_rows, strings, labelled, runs,
                   gen_error, first_run, outside_gen>>

\* line 120: an exception raised in write_file leaves the run
GenWriteRaise ==
    /\ gpc = "writing"
    /\ pc = "raised"
    /\ gen_error' = "UnboundLocalError"
    /\ gpc' = "raised"
    /\ UNCHANGED <<wf, source_file, csv_files, csv_before, csv_rows, strings,
                   labelled, runs, first_run, outside_gen>>

\* the loop of line 119 is exhausted: the run returns
GenReturn ==
    /\ gpc \in {"read", "writing"}
    /\ strings.bound
    /\ pc \in {"start", "ready"}
    /\ calls = Len(strings.value)
    /\ runs' = runs + 1
    /\ first_run' = IF runs = 0 THEN <<file_in, file_labels, file_bio>>
                    ELSE first_run
    /\ gpc' = "returned"
    /\ UNCHANGED <<wf, source_file, csv_files, csv_before, csv_rows, strings,
                   labelled, gen_error, outside_gen>>

\* the caller runs generate_in_label_bio_files again on the same source
GenAgain ==
    /\ gpc = "returned"
    /\ runs < MaxRuns
    /\ csv_before' = csv_files
    /\ strings' = NotBound
    /\ labelled' = 0
    /\ calls' = 0
    /\ pc' = "start"
    /\ gpc' = "start"
    /\ UNCHANGED <<inputs, locals, files, groups, source_file, csv_files,
                   csv_rows, runs, gen_error, first_run, outside_gen>>

NextGenerate ==
    \/ GenTruncate
    \/ GenExtract
    \/ GenSkipExtract
    \/ GenReadCsv
    \/ GenReadCsvRaise
    \/ GenStringsRaise
    \/ GenCallWriteFile
    \/ BlankLine
    \/ ScanLine
    \/ ScanLineRaise
    \/ WriteFileReturn
    \/ GenWriteRaise
    \/ GenReturn
    \/ GenAgain

SpecGenerate == InitGenerate /\ [][NextGenerate]_vars

\* ------------------------------------------------------------------------
\* ActivationAnnotator (raid/ast_token_activator.py)
\* ------------------------------------------------------------------------
MaxFilterLen == 2
MaxLayers == 2
MaxDim == 2

\* str.startswith
StartsWith(s, p) == Len(s) >= Len(p) /\ SubSeq(s, 1, Len(p)) = p

RePrefix == <<"r", "e", ":">>
SetPrefix == <<"s", "e", "t", ":">>

\* re.compile(pattern): the pattern object, known by its pattern; the
\* patterns of the model are made of characters that stand for themselves
\* and of ^ and $, so each of them compiles
re_compile(pattern) == [kind |-> "re", pattern |-> pattern]

\* set(text.split(","))
word_set(text) ==
    [kind |-> "set",
     words |-> {Split(text, ",")[k] : k \in 1..Len(Split(text, ","))}]

\* handle_binary_filter on self.binary_filter = f, with compiled the value
\* of self.binary_filter_compiled before the call
handle_binary_filter(f, compiled) ==
    IF StartsWith(f, RePrefix)
    THEN [raised |-> "none",
          compiled |-> Some(re_compile(SubSeq(f, 4, Len(f))))]
    ELSE IF StartsWith(f, SetPrefix)
    THEN [raised |-> "none",
          compiled |-> Some(word_set(SubSeq(f, 5, Len(f))))]
    ELSE [raised |-> "NotImplementedError", compiled |-> compiled]

\* np.sum and np.max of the numbers of a non-empty sequence
RECURSIVE SumOf(_)
SumOf(xs) == IF xs = <<>> THEN 0 ELSE Head(xs) + SumOf(Tail(xs))
MaxOf(xs) == CHOOSE x \in {xs[k] : k \in 1..Len(xs)} :
                \A k \in 1..Len(xs) : xs[k] <= x

\* column j of the stacked array
Column(acts, j) == [i \in 1..Len(acts) |-> acts[i][j]]

\* np.stack raises ValueError for an empty list and for arrays of unequal
\* shapes
Stacks(acts) ==
    /\ acts # <<>>
    /\ \A i \in 1..Len(acts) : Len(acts[i]) = Len(acts[1])

\* an aggregation in which an unknown keyword falls back to the mean
aggregate_activation_list_lenient(acts, method) ==
    IF ~Stacks(acts) THEN [raised |-> "ValueError", value |-> None]
    ELSE LET d == Len(acts[1])
         IN  IF method = "max"
             THEN [raised |-> "none",
                   value |-> Some([j \in 1..d |-> MaxOf(Column(acts, j))])]
             ELSE IF method = "sum"
             THEN [raised |-> "none",
                   value |-> Some([j \in 1..d |-> SumOf(Column(acts, j))])]
             ELSE IF method = "concat"
             THEN [raised |-> "none", value |-> Some(Flatten(acts))]
             ELSE [raised |-> "none",
                   value |-> Some([j \in 1..d |->
                                [num |-> SumOf(Column(acts, j)),
                                 den |-> Len(acts)]])]

\* aggregate_activation_list(activations, method); a mean is kept as the
\* quotient num / den
aggregate_activation_list(acts, method) ==
    IF ~Stacks(acts) THEN [raised |-> "ValueError", value |-> None]
    ELSE LET d == Len(acts[1])
         IN  IF method = "mean"
             THEN [raised |-> "none",
                   value |-> Some([j \in 1..d |->
                                [num |-> SumOf(Column(acts, j)),
                                 den |-> Len(acts)]])]
             ELSE IF method = "max"
             THEN [raised |-> "none",
                   value |-> Some([j \in 1..d |-> MaxOf(Column(acts, j))])]
             ELSE IF method = "sum"
             THEN [raised |-> "none",
                   value |-> Some([j \in 1..d |-> SumOf(Column(acts, j))])]
             ELSE IF method = "concat"
             THEN [raised |-> "none", value |-> Some(Flatten(acts))]
             ELSE [raised |-> "ValueError", value |-> None]

\* the filter strings: a prefix followed by a short body, the constructor's
\* default, the invalid filter of the tests and an anchored re: filter
DefaultFilter ==
    <<"s", "e", "t", ":", "p", "u", "b", "l", "i", "c", ",",
      "s", "t", "a", "t", "i", "c">>
Filters ==
    LET prefixes == {RePrefix, SetPrefix, <<>>, <<"r", "e">>, <<"s", "e", "t">>,
                     <<"R", "e", ":">>, <<"s", "e", "t", "s", ":">>,
                     <<" ", "r", "e", ":">>}
        bodies == SeqsUpTo({"a", ",", ":"}, MaxFilterLen)
    IN  {q \o b : q \in prefixes, b \in bodies}
        \cup {DefaultFilter,
              <<"i", "n", "v", "a", "l", "i", "d", ":",
                "p", "a", "t", "t", "e", "r", "n">>,
              <<"r", "e", ":", "^", "i", "f", "$">>}

\* the method keywords
Supported == {"mean", "max", "sum", "concat"}

\* a method is called with a filter string, with what a call on an earlier
\* filter left in binary_filter_compiled, with a method keyword, supported
\* or not, and with the activations of one token: one vector per layer, all
\* of one length
InitAnnotator ==
    /\ IdleWf
    /\ IdleConv
    /\ IdleCls
    /\ IdleBio
    /\ IdleMain
    /\ IdleGen
    /\ ann_entry \in {"handle_binary_filter", "aggregate_activation_list",
                      "process_activations"}
    /\ binary_filter \in
          IF ann_entry = "aggregate_activation_list" THEN {DefaultFilter}
          ELSE Filters
    /\ binary_filter_compiled \in
          IF ann_entry = "handle_binary_filter"
          THEN {None, Some(word_set(SubSeq(DefaultFilter, 5, Len(DefaultFilter))))}
          ELSE {None}
    /\ compiled_before = binary_filter_compiled
    /\ aggregation_method \in
          IF ann_entry = "handle_binary_filter" THEN {"mean"}
          ELSE Supported \cup {"invalid", "median", "Mean", ""}
    /\ activations \in
          IF ann_entry = "aggregate_activation_list"
          THEN UNION {[1..n -> [1..d -> {-1, 2}]] :
                         n \in 0..MaxLayers, d \in 0..MaxDim}
          ELSE {<< <<2>> >>}
    /\ n_tokens \in
          IF ann_entry = "process_activations" THEN 0..MaxTokens ELSE {0}
    /\ aggregated = None
    /\ ann_error = "none"
    /\ ann_files = {}
    /\ apc = "call"

\* handle_binary_filter called on its own
CallHandleBinaryFilter ==
    /\ apc = "call"
    /\ ann_entry = "handle_binary_filter"
    /\ LET r == handle_binary_filter(binary_filter, binary_filter_compiled)
       IN  /\ binary_filter_compiled' = r.compiled
           /\ ann_error' = r.raised
           /\ apc' = IF r.raised = "none" THEN "returned" ELSE "raised"
    /\ UNCHANGED <<ann_entry, binary_filter, compiled_before,
                   aggregation_method, activations, n_tokens, aggregated,
                   ann_files, outside_ann>>

\* aggregate_activation_list called on its own
CallAggregateActivationList ==
    /\ apc = "call"
    /\ ann_entry = "aggregate_activation_list"
    /\ LET r == aggregate_activation_list(activations, aggregation_method)
       IN  /\ aggregated' = r.value
           /\ ann_error' = r.raised
           /\ apc' = IF r.raised = "none" THEN "returned" ELSE "raised"
    /\ UNCHANGED <<ann_entry, binary_filter, binary_filter_compiled,
                   compiled_before, aggregation_method, activations, n_tokens,
                   ann_files, outside_ann>>

\* process_activations, lines 102-105: the extractor writes activations.json
GenerateActivations ==
    /\ apc = "call"
    /\ ann_entry = "process_activations"
    /\ ann_files' = ann_files \cup {"activations.json"}
    /\ apc' = "generated"
    /\ UNCHANGED <<ann_entry, binary_filter, binary_filter_compiled,
                   compiled_before, aggregation_method, activations, n_tokens,
                   aggregated, ann_error, outside_ann>>

\* process_activations, line 107: activations.json is read back
ParseActivations ==
    /\ apc = "generated"
    /\ apc' = "parsed"
    /\ UNCHANGED <<ann_entry, binary_filter, binary_filter_compiled,
                   compiled_before, aggregation_method, activations, n_tokens,
                   aggregated, ann_error, ann_files, outside_ann>>

\* process_activations, line 109
HandleBinaryFilterStep ==
    /\ apc = "parsed"
    /\ LET r == handle_binary_filter(binary_filter, binary_filter_compiled)
       IN  /\ binary_filter_compiled' = r.compiled
           /\ ann_error' = r.raised
           /\ apc' = IF r.raised = "none" THEN "filtered" ELSE "raised"
    /\ UNCHANGED <<ann_entry, binary_filter, compiled_before,
                   aggregation_method, activations, n_tokens, aggregated,
                   ann_files, outside_ann>>

\* process_activations, lines 111-113: annotate_data; max() of no depth at
\* all raises ValueError before a file is opened
AnnotateData ==
    /\ apc = "filtered"
    /\ IF n_tokens = 0
       THEN /\ ann_error' = "ValueError"
            /\ apc' = "raised"
            /\ UNCHANGED ann_files
       ELSE /\ ann_files' = ann_files \cup {"output_tokens.txt", "output_labels.txt",
                                        "output_activations.txt"}
            /\ apc' = "annotated"
            /\ UNCHANGED ann_error
    /\ UNCHANGED <<ann_entry, binary_filter, binary_filter_compiled,
                   compiled_before, aggregation_method, activations, n_tokens,
                   aggregated, outside_ann>>

\* process_activations, line 115: write_aggregated_activations aggregates
\* the layers of every token and then writes the file
WriteAggregatedActivations ==
    /\ apc = "annotated"
    /\ LET r == aggregate_activation_list(activations, aggregation_method)
       IN  IF r.raised = "none"
           THEN /\ aggregated' = r.value
                /\ ann_files' = ann_files \cup {"output_aggregated_activations.json"}
                /\ apc' = "aggregated"
                /\ UNCHANGED ann_error
           ELSE /\ ann_error' = r.raised
                /\ apc' = "raised"
                /\ UNCHANGED <<aggregated, ann_files>>
    /\ UNCHANGED <<ann_entry, binary_filter, binary_filter_compiled,
                   compiled_before, aggregation_method, activations, n_tokens,
                   outside_ann>>

\* process_activations, lines 117-119: the phrase activations are
\* aggregated with the same method and written
WritePhraseActivations ==
    /\ apc = "aggregated"
    /\ ann_files' = ann_files \cup {"output_phrasal_activations.json"}
    /\ apc' = "returned"
    /\ UNCHANGED <<ann_entry, binary_filter, binary_filter_compiled,
                   compiled_before, aggregation_method, activations, n_tokens,
                   aggregated, ann_error, outside_ann>>

NextAnnotator ==
    \/ CallHandleBinaryFilter
    \/ CallAggregateActivationList
    \/ GenerateActivations
    \/ ParseActivations
    \/ HandleBinaryFilterStep
    \/ AnnotateData
    \/ WriteAggregatedActivations
    \/ WritePhraseActivations

SpecAnnotator == InitAnnotator /\ [][NextAnnotator]_vars

\* ------------------------------------------------------------------------
\* The command line of the pipeline (raid_pipeline.py, src/app.py,
\* generate_files.py)
\* ------------------------------------------------------------------------
\* the paths given on the command line, and the default of --input_text_file
JavaPaths == {<<"A", ".", "j", "a", "v", "a">>,
              <<"d", "/", "B", ".", "j", "a", "v", "a">>,
              <<"C">>}
InputTextFile == <<"j", "a", "v", "a", ".", "t", "x", "t">>

\* os.path.isfile: the path names a file (a directory is not a file); the
\* variant before it takes a directory for a file
isfile_or_dir(path) == path \in disk_files \cup disk_dirs

isfile(path) == path \in disk_files

\* os.path.exists
exists(path) == path \in disk_files \cup disk_dirs

\* os.path.splitext(os.path.basename(path))[0]: what follows the last slash,
\* up to its last dot if a character other than a dot stands before that dot
input_filename(path) ==
    LET last(S) == CHOOSE x \in S : \A y \in S : y <= x
        slashes == {i \in 1..Len(path) : path[i] = "/"}
        base == IF slashes = {} THEN path
                ELSE SubSeq(path, last(slashes) + 1, Len(path))
        dots == {i \in 1..Len(base) :
                    base[i] = "." /\ \E j \in 1..(i - 1) : base[j] # "."}
    IN  IF dots = {} THEN base ELSE SubSeq(base, 1, last(dots) - 1)

\* TokenLabelFilesGenerator.read_file of generate_files.py on the text of a
\* file, from character i on: a line that is a line break alone ends a
\* string, which is stripped; the last string is kept as it is.  st is the
\* string so far, fresh tells that character i begins a line.
RECURSIVE read_file_blocks(_, _, _, _)
read_file_blocks(text, i, st, fresh) ==
    LET white == {SP, NL, "\t", "\r"}
        inner == {k \in 1..Len(st) : st[k] \notin white}
        strip == IF inner = {} THEN <<>>
                 ELSE SubSeq(st, Min(inner),
                             CHOOSE k \in inner : \A j \in inner : j <= k)
    IN  IF i > Len(text) THEN <<st>>
        ELSE IF text[i] = NL /\ fresh
        THEN <<strip>> \o read_file_blocks(text, i + 1, <<>>, TRUE)
        ELSE read_file_blocks(text, i + 1, Append(st, text[i]), text[i] = NL)

\* main is called with a path, a --binary_filter (the default, a regular
\* expression, or a string of neither form) and a disk
InitMain ==
    /\ IdleWf
    /\ IdleConv
    /\ IdleCls
    /\ IdleBio
    /\ IdleGen
    /\ ann_entry = "none"
    /\ binary_filter \in {DefaultFilter, RePrefix \o <<"a">>, <<"a">>}
    /\ binary_filter_compiled = None
    /\ compiled_before = None
    /\ aggregation_method = <<>>
    /\ activations = <<>>
    /\ n_tokens = 0
    /\ aggregated = None
    /\ ann_error = "none"
    /\ ann_files = {}
    /\ apc = "idle"
    /\ java_file_path \in JavaPaths \cup {OutputDir}
    /\ disk_files \in SUBSET (JavaPaths \cup {InputTextFile})
    /\ disk_dirs \in SUBSET {OutputDir}
    /\ stdout = <<>>
    /\ exit_code = <<>>
    /\ made_dir = FALSE
    /\ ast_done = FALSE
    /\ activations_done = FALSE
    /\ patterns_done = FALSE
    /\ written = {}
    /\ main_error = "none"
    /\ mpc = "check"

\* lines 26-28: the path does not name a file: a message, and sys.exit(1)
ExitMissingFile ==
    /\ mpc = "check"
    /\ ~isfile(java_file_path)
    /\ stdout' = Append(stdout,
                        <<"E", "r", "r", "o", "r", ":", SP, "F", "i", "l", "e", SP, "'">>
                            \o java_file_path \o <<"'", SP, "d", "o", "e", "s", SP, "n", "o", "t", SP, "e", "x", "i", "s", "t", ".">>)
    /\ exit_code' = <<1>>
    /\ mpc' = "exited"
    /\ UNCHANGED <<outside_main, grammar, ast, leaf_tokens, input_sentences,
                   binary_filter_compiled, java_file_path, disk_files,
                   disk_dirs, made_dir, ast_done, activations_done,
                   patterns_done, written, main_error>>

\* lines 26-34: the path names a file: the output directory is made if it
\* does not exist
PrepareOutputDir ==
    /\ mpc = "check"
    /\ isfile(java_file_path)
    /\ disk_dirs' = IF exists(OutputDir) THEN disk_dirs ELSE disk_dirs \cup {OutputDir}
    /\ made_dir' = ~exists(OutputDir)
    /\ mpc' = "ast"
    /\ UNCHANGED <<outside_main, grammar, ast, leaf_tokens, input_sentences,
                   binary_filter_compiled, java_file_path, disk_files, stdout,
                   exit_code, ast_done, activations_done, patterns_done,
                   written, main_error>>

\* lines 37-38: JavaASTProcessor(java_file_path, output_dir).process_ast():
\* the source is read and parsed to some tree of the Java grammar (the trees
\* of at most three nodes), the leaf tokens are extracted, written to
\* input_sentences.txt and printed
ProcessAstCall ==
    /\ mpc = "ast"
    /\ \E t \in UNION {TreesOf(p, "java") : p \in {q \in Shapes : Len(q) <= 3}} :
          LET w == write_tokens_to_file(extract_leaf_tokens(t, 1, 0), OutputDir)
          IN  /\ ast' = t
              /\ leaf_tokens' = extract_leaf_tokens(t, 1, 0)
              /\ input_sentences' = Some(w.content)
              /\ written' = written \cup {w.path}
              /\ stdout' = stdout \o w.printed
    /\ grammar' = "java"
    /\ ast_done' = TRUE
    /\ mpc' = "visualize"
    /\ UNCHANGED <<outside_main, binary_filter_compiled, java_file_path,
                   disk_files, disk_dirs, exit_code, made_dir,
                   activations_done, patterns_done, main_error>>

\* lines 41-42: visualize_ast renders <output_dir>/<input_filename>_ast.png
\* and prints an empty line and the path
VisualizeAstCall ==
    /\ mpc = "visualize"
    /\ LET ast_output_path ==
               path_join(OutputDir, input_filename(java_file_path) \o <<"_", "a", "s", "t">>)
       IN  /\ written' = written \cup {ast_output_path \o <<".", "p", "n", "g">>}
           /\ stdout' = stdout \o
                  <<<<>>,
                    <<"A", "S", "T", SP, "v", "i", "s", "u", "a", "l", "i", "z", "a", "t", "i", "o", "n", SP, "s", "a", "v", "e", "d", SP, "a", "s", SP, "'">>
                        \o ast_output_path \o <<".", "p", "n", "g", "'", ".">>>>
    /\ mpc' = "activations"
    /\ UNCHANGED <<outside_main, grammar, ast, leaf_tokens, input_sentences,
                   binary_filter_compiled, java_file_path, disk_files,
                   disk_dirs, exit_code, made_dir, ast_done, activations_done,
                   patterns_done, main_error>>

\* lines 45-51, process_activations of app.py with a filter of one of the
\* two forms: activations.json is written and read back, the filter is
\* compiled, annotate_data writes the tokens, the labels and the activations
\* under the default --output_prefix and prints the three paths, and
\* write_token_activation_mapping writes the mapping and prints its path
ProcessActivationsCall ==
    /\ mpc = "activations"
    /\ handle_binary_filter(binary_filter, binary_filter_compiled).raised = "none"
    /\ binary_filter_compiled' =
          handle_binary_filter(binary_filter, binary_filter_compiled).compiled
    /\ LET output_prefix == <<"o", "u", "t", "p", "u", "t">>
           words_file == path_join(OutputDir, output_prefix \o <<"_", "t", "o", "k", "e", "n", "s", ".", "t", "x", "t">>)
           labels_file == path_join(OutputDir, output_prefix \o <<"_", "l", "a", "b", "e", "l", "s", ".", "t", "x", "t">>)
           activations_file ==
               path_join(OutputDir, output_prefix \o <<"_", "a", "c", "t", "i", "v", "a", "t", "i", "o", "n", "s", ".", "t", "x", "t">>)
           mapping_file ==
               path_join(OutputDir, output_prefix \o <<"_", "s", "c", "a", "l", "a", "r", "_", "t", "o", "k", "e", "n", "_", "a", "c", "t", "i", "v", "a", "t", "i", "o", "n", "_", "m", "a", "p", "p", "i", "n", "g", ".", "j", "s", "o", "n">>)
       IN  /\ written' = written \cup
                  {path_join(OutputDir, <<"a", "c", "t", "i", "v", "a", "t", "i", "o", "n", "s", ".", "j", "s", "o", "n">>),
                   words_file, labels_file, activations_file, mapping_file}
           /\ stdout' = stdout \o
                  <<<<"W", "o", "r", "d", "s", SP, "s", "a", "v", "e", "d", SP, "t", "o", SP, "'">> \o words_file \o <<"'", ".">>,
                    <<"L", "a", "b", "e", "l", "s", SP, "s", "a", "v", "e", "d", SP, "t", "o", SP, "'">> \o labels_file \o <<"'", ".">>,
                    <<"A", "c", "t", "i", "v", "a", "t", "i", "o", "n", "s", SP, "s", "a", "v", "e", "d", SP, "t", "o", SP, "'">> \o activations_file \o <<"'", ".">>,
                    <<"T", "o", "k", "e", "n", SP, "a", "c", "t", "i", "v", "a", "t", "i", "o", "n", SP, "m", "a", "p", "p", "i", "n", "g", SP, "s", "a", "v", "e", "d", SP, "t", "o", SP, "'">>
                        \o mapping_file \o <<"'", ".">>>>
    /\ activations_done' = TRUE
    /\ mpc' = "patterns"
    /\ UNCHANGED <<outside_main, grammar, ast, leaf_tokens, input_sentences,
                   java_file_path, disk_files, disk_dirs, exit_code, made_dir,
                   ast_done, patterns_done, main_error>>

\* lines 45-51 with a filter of neither form: activations.json is written
\* and read back, handle_binary_filter raises NotImplementedError, which
\* nothing catches: the process ends with code 1
ProcessActivationsRaise ==
    /\ mpc = "activations"
    /\ handle_binary_filter(binary_filter, binary_filter_compiled).raised # "none"
    /\ written' = written \cup {path_join(OutputDir, <<"a", "c", "t", "i", "v", "a", "t", "i", "o", "n", "s", ".", "j", "s", "o", "n">>)}
    /\ main_error' = handle_binary_filter(binary_filter, binary_filter_compiled).raised
    /\ activations_done' = TRUE
    /\ exit_code' = <<1>>
    /\ mpc' = "exited"
    /\ UNCHANGED <<outside_main, grammar, ast, leaf_tokens, input_sentences,
                   binary_filter_compiled, java_file_path, disk_files,
                   disk_dirs, stdout, made_dir, ast_done, patterns_done>>

\* lines 54-57: the file is read again and labelled
ExtractPatternsCall ==
    /\ mpc = "patterns"
    /\ patterns_done' = TRUE
    /\ mpc' = "generate"
    /\ UNCHANGED <<outside_main, grammar, ast, leaf_tokens, input_sentences,
                   binary_filter_compiled, java_file_path, disk_files,
                   disk_dirs, stdout, exit_code, made_dir, ast_done,
                   activations_done, written, main_error>>

\* lines 60-61, generate_in_and_label_files of generate_files.py on the
\* default --input_text_file when it names a file: the strings of some text
\* are read and printed, <name>.in and <name>.label are emptied and then
\* written string by string
GenerateFilesCall ==
    /\ mpc = "generate"
    /\ Slice(InputTextFile, Len(InputTextFile) - 4, Len(InputTextFile)) = <<".", "t", "x", "t">>
    /\ isfile(InputTextFile)
    /\ \E text \in SeqsUpTo({"x", SP, NL}, 2) \cup {<<"x", SP, NL, NL, NL, "x", NL>>} :
          LET strs == read_file_blocks(text, 1, <<>>, TRUE)
              \* str(strings): the repr of each string is that of the bytes
              \* without the leading b
              list_str == <<"[">> \o Flatten([k \in 1..Len(strs) |->
                                (IF k = 1 THEN <<>> ELSE <<",", SP>>)
                                    \o Tail(bytes_str(strs[k]))]) \o <<"]">>
          IN  stdout' = Append(stdout, list_str)
    /\ LET file == Slice(InputTextFile, 0, Len(InputTextFile) - 4)
       IN  written' = written \cup {file \o <<".", "i", "n">>, file \o <<".", "l", "a", "b", "e", "l">>}
    /\ mpc' = "return"
    /\ UNCHANGED <<outside_main, grammar, ast, leaf_tokens, input_sentences,
                   binary_filter_compiled, java_file_path, disk_files,
                   disk_dirs, exit_code, made_dir, ast_done, activations_done,
                   patterns_done, main_error>>

\* lines 60-61 when the default --input_text_file names no file: read_file
\* raises FileNotFoundError before anything is printed or emptied, and
\* nothing catches it: the process ends with code 1
GenerateFilesRaise ==
    /\ mpc = "generate"
    /\ ~isfile(InputTextFile)
    /\ main_error' = "FileNotFoundError"
    /\ exit_code' = <<1>>
    /\ mpc' = "exited"
    /\ UNCHANGED <<outside_main, grammar, ast, leaf_tokens, input_sentences,
                   binary_filter_compiled, java_file_path, disk_files,
                   disk_dirs, stdout, made_dir, ast_done, activations_done,
                   patterns_done, written>>

\* main returns: the process ends with code 0
MainReturn ==
    /\ mpc = "return"
    /\ exit_code' = <<0>>
    /\ mpc' = "exited"
    /\ UNCHANGED <<outside_main, grammar, ast, leaf_tokens, input_sentences,
                   binary_filter_compiled, java_file_path, disk_files,
                   disk_dirs, stdout, made_dir, ast_done, activations_done,
                   patterns_done, written, main_error>>

NextMain ==
    \/ ExitMissingFile
    \/ PrepareOutputDir
    \/ ProcessAstCall
    \/ VisualizeAstCall
    \/ ProcessActivationsCall
    \/ ProcessActivationsRaise
    \/ ExtractPatternsCall
    \/ GenerateFilesCall
    \/ GenerateFilesRaise
    \/ MainReturn

SpecMain == InitMain /\ [][NextMain]_vars

\* ------------------------------------------------------------------------
\* Reading the output streams
\* ------------------------------------------------------------------------
Whitespace == {SP, NL}

\* the lines of an output file, each without its line break
FileLines(f) == LET p == Split(f, NL) IN SubSeq(p, 1, Len(p) - 1)

\* the space-terminated fields of one output line
Fields(l) == LET p == Split(l, SP) IN SubSeq(p, 1, Len(p) - 1)

\* the number of physical lines of a text (a last line needs no line break)
PhysicalLines(s) ==
    IF s = <<>> THEN 0
    ELSE IF s[Len(s)] = NL THEN Len(Split(s, NL)) - 1 ELSE Len(Split(s, NL))

\* the first write_file call after the truncation has returned
FirstCallDone == pc = "ready" /\ calls = 1

\* the first write_file call is running, has returned or has raised
FirstCall == (calls = 0 /\ pc \in {"loop", "raised"}) \/ FirstCallDone

RECURSIVE TokensFitLines(_, _)
\* the token texts, concatenated, give line after line of ls with the
\* whitespace removed, no token reaching over the end of a line
TokensFitLines(ls, toks) ==
    IF ls = <<>> THEN toks = <<>>
    ELSE \E k \in 0..Len(toks) :
            /\ Flatten(SubSeq(toks, 1, k)) = Without(Head(ls), Whitespace)
            /\ TokensFitLines(Tail(ls), SubSeq(toks, k + 1, Len(toks)))

\* the token cursor after the g-th line of this call
CursorAfter(g) == IF g < Len(groups) THEN groups[g + 1].first ELSE prev

\* ------------------------------------------------------------------------
\* Claims
\* ------------------------------------------------------------------------

\* C1: when the token texts concatenate to the source without whitespace
\* and no token spans a line break, output line i of .in, spaces removed,
\* equals source line i with its whitespace removed, for every source line i.
C1_ReproducesEachLine ==
    (FirstCallDone /\ TokensFitLines(lines, tokens)) =>
        /\ Len(FileLines(file_in)) >= Len(lines)
        /\ \A i \in 1..Len(lines) :
              Without(FileLines(file_in)[i], {SP}) = Without(lines[i], Whitespace)

\* C2: the tokens written over all lines, in line order, are exactly the
\* prefix tokens[0..m) of the token stream, m being the cursor prev capped at
\* the length of the stream: none twice, none skipped, order kept, and what
\* is not written is a suffix.
C2_WrittenIsPrefix ==
    LET m == Lesser(prev, Len(tokens))
    IN  /\ pc \in {"loop", "ready", "raised"} =>
              Flatten([g \in 1..Len(groups) |-> groups[g].written])
                  = [j \in 1..m |-> j - 1]
        /\ FirstCall =>
              Without(file_in, {NL})
                  = Flatten([j \in 1..m |-> tokens[j] \o <<SP>>])

\* C2 witness: a finished call that wrote tokens on two different lines and
\* left a suffix of the stream unwritten
C2_Witness ==
    /\ FirstCallDone
    /\ prev < Len(tokens)
    /\ \E g, h \in 1..Len(groups) :
          g < h /\ groups[g].written # <<>> /\ groups[h].written # <<>>

\* C3: each output stream holds one line per physical line of the source
\* and a final empty line, whether or not the source ends with a line break.
C3_TrailingBlankLine ==
    FirstCallDone =>
        \A f \in {file_in, file_labels, file_bio} :
            /\ Len(FileLines(f)) = PhysicalLines(string) + 1
            /\ FileLines(f)[Len(FileLines(f))] = <<>>

\* C4: every token assigned to a line occurs in that line, and the tokens
\* of one group occur at strictly increasing start positions (the positions
\* the scan found them at).
C4_TokensOccurInLine ==
    pc \in {"loop", "ready", "raised"} =>
        \A g \in 1..Len(groups) :
            LET w  == groups[g].written
                st == groups[g].starts
            IN  /\ Len(w) <= Len(st)
                /\ \A i \in 1..Len(w) :
                      /\ SubSeq(lines[g], st[i] + 1, st[i] + Len(tokens[w[i] + 1]))
                             = tokens[w[i] + 1]
                      /\ i > 1 => st[i - 1] < st[i]

\* C5: when the first un-consumed token is not found in a non-blank line,
\* the line's group does not contain it and the cursor prev does not move
\* past it.
C5_MissedTokenNotConsumed ==
    pc \in {"loop", "ready", "raised"} =>
        \A g \in 1..Len(groups) :
            (~groups[g].blank /\ groups[g].failed /\ groups[g].starts = <<>>) =>
                /\ groups[g].written = <<>>
                /\ CursorAfter(g) = groups[g].first

\* C6: write_file completes without raising for every combination of
\* source lines and token list.
C6_NeverRaises == pc # "raised"

\* C7: the lines '/**', ' * {@inheritDoc}', ' */' (at either indentation)
\* with the tokens '/**', '*', '{@inheritDoc}', '*/' give the groups ['/**'],
\* ['*', '{@inheritDoc}'], ['*/'] and a trailing empty group.
C7_BlockComment ==
    (/\ FirstCallDone
     /\ string \in {CommentLines(1), CommentText}
     /\ tokens = CommentTokens) =>
        file_in = in_text(tokens, <<0>>) \o in_text(tokens, <<1, 2>>)
                      \o in_text(tokens, <<3>>) \o in_text(tokens, <<>>)

\* C8: once the outputs have been truncated, after any number of write_file
\* calls the .in, .label and .bio files hold the same number of lines, line
\* n of each holding as many fields as the others.
C8_ParallelStreams ==
    pc = "ready" =>
        /\ Len(FileLines(file_in)) = Len(FileLines(file_labels))
        /\ Len(FileLines(file_in)) = Len(FileLines(file_bio))

\* C9: in every output line the .in, .label and .bio lines split on spaces
\* into the same number of fields, and field k of the three is the text, the
\* canonical label and the BIO tag of one and the same token j, whatever the
\* token's text.
C9_FieldsAligned ==
    FirstCallDone =>
        \A n \in 1..Len(groups) :
            LET w  == groups[n].written
                fi == Fields(FileLines(file_in)[n])
                fl == Fields(FileLines(file_labels)[n])
                fb == Fields(FileLines(file_bio)[n])
            IN  /\ Len(fi) = Len(w) /\ Len(fl) = Len(w) /\ Len(fb) = Len(w)
                /\ \A k \in 1..Len(w) :
                      /\ fi[k] = tokens[w[k] + 1]
                      /\ fl[k] = convert_label(
                                    Slice(labels[w[k] + 1], 2, Len(labels[w[k] + 1])))
                      /\ fb[k] = <<labels[w[k] + 1][1]>>

\* a and b are the same text up to the case of their letters
SameIgnoringCase(a, b) ==
    /\ Len(a) = Len(b)
    /\ \A i \in 1..Len(a) :
          \/ a[i] = b[i]
          \/ (a[i] \in DOMAIN ToLower /\ ToLower[a[i]] = b[i])
          \/ (b[i] \in DOMAIN ToLower /\ ToLower[b[i]] = a[i])
          \/ (a[i] \in DOMAIN ToUpper /\ ToUpper[a[i]] = b[i])
          \/ (b[i] \in DOMAIN ToUpper /\ ToUpper[b[i]] = a[i])

\* the letters of s, all in upper case
IsUpperOf(u, s) ==
    /\ SameIgnoringCase(u, s)
    /\ \A i \in 1..Len(u) : u[i] \notin DOMAIN ToUpper

\* C10: convert_label returns, for a label that is a key of the table in
\* any letter case, the canonical name of that key ('++' -> DOUBLEPLUS, '::'
\* -> DOUBLECOLON, '==' -> EQEQUAL, 'public' -> MODIFIER, 'identifier' ->
\* IDENT), and for any other label the label in upper case.
C10_ConvertLabel ==
    lpc = "returned" =>
        /\ \A k \in Keys :
              SameIgnoringCase(raw_label, k) => canonical = label_types[k]
        /\ (\A k \in Keys : ~SameIgnoringCase(raw_label, k)) =>
              IsUpperOf(canonical, raw_label)
        /\ raw_label = <<"+", "+">> =>
              canonical = <<"D", "O", "U", "B", "L", "E", "P", "L", "U", "S">>
        /\ raw_label = <<":", ":">> =>
              canonical = <<"D", "O", "U", "B", "L", "E", "C", "O", "L", "O", "N">>
        /\ raw_label = <<"=", "=">> =>
              canonical = <<"E", "Q", "E", "Q", "U", "A", "L">>
        /\ SameIgnoringCase(raw_label, <<"p", "u", "b", "l", "i", "c">>) =>
              canonical = <<"M", "O", "D", "I", "F", "I", "E", "R">>
        /\ SameIgnoringCase(raw_label,
                            <<"i", "d", "e", "n", "t", "i", "f", "i", "e", "r">>) =>
              canonical = <<"I", "D", "E", "N", "T">>

\* C10 witness: a key written in upper case has been converted to its
\* canonical name, which is not the label itself
C10_Witness ==
    /\ lpc = "returned"
    /\ raw_label = <<"P", "U", "B", "L", "I", "C">>
    /\ canonical = <<"M", "O", "D", "I", "F", "I", "E", "R">>

\* the text holds ASCII characters only
IsAscii(s) == \A i \in 1..Len(s) : s[i] \notin {DotlessI, LongS}

\* C11 as stated: for every label x, convert_label(convert_label(x)) is
\* convert_label(x).
C11_Idempotent == lpc = "twice" => again = canonical

\* C11 as amended: for every label x of ASCII characters (every key and
\* every value of the table, every unmapped ASCII string), a second
\* convert_label returns what the first returned.
C11_IdempotentAscii ==
    (lpc = "twice" /\ IsAscii(raw_label)) => again = canonical

\* C11 witness: a key in upper case was converted twice; the first result, a
\* table value whose lower case is itself a key, came back unchanged
C11_Witness ==
    /\ lpc = "twice"
    /\ raw_label = <<"P", "U", "B", "L", "I", "C">>
    /\ canonical = <<"M", "O", "D", "I", "F", "I", "E", "R">>
    /\ lower(canonical) \in Keys
    /\ again = canonical

\* the patterns of cases without their trailing $, in the order of cases
case_bodies ==
    <<single_letter_body, camel_case_body, pascal_case_body, snake_case_body,
      screaming_snake_case_body, prefix_body, numeric_body>>

\* the pattern of case k matches the whole of s, from its first to its last
\* character
WholeMatch(k, s) == Len(s) \in CatEnds(case_bodies[k], s, {0})

WholeMatches(s) == {k \in 1..Len(cases) : WholeMatch(k, s)}

CategoryNames == {cases[k].key : k \in 1..Len(cases)} \cup {"N/A"}

\* C12: for every string find_label_with_regex returns one value: the first
\* category, in the order single_letter, camel_case, pascal_case, snake_case,
\* screaming_snake_case, prefix, numeric, whose pattern matches the whole
\* token, or 'N/A' when no pattern matches the whole token.
C12_FirstWholeMatch ==
    cpc = "returned" =>
        /\ category \in CategoryNames
        /\ category = IF WholeMatches(name_token) = {} THEN "N/A"
                      ELSE cases[Min(WholeMatches(name_token))].key

\* a name that starts with get or set, followed by letters only
GetSetPrefixed(s) == WholeMatch(6, s)

\* C13: find_label_with_regex returns 'prefix' for "getX" and for the names
\* made of get or set followed by letters, and 'numeric' for "x1y2".
C13_PrefixAndNumeric ==
    cpc = "returned" =>
        /\ GetSetPrefixed(name_token) => category = "prefix"
        /\ name_token = <<"x", "1", "y", "2">> => category = "numeric"

\* ------------------------------------------------------------------------
\* Reading a tree
\* ------------------------------------------------------------------------
Nodes(t) == 1..Len(t.parent)

Childless(t) == {n \in Nodes(t) : \A c \in Nodes(t) : t.parent[c] # n}

\* x is n or an ancestor of n
RECURSIVE IsAncestorOrSelf(_, _, _)
IsAncestorOrSelf(t, x, n) ==
    x = n \/ (t.parent[n] # 0 /\ IsAncestorOrSelf(t, x, t.parent[n]))

\* a comes before b in the source: below their lowest common ancestor, a is
\* under an earlier child than b
Before(t, a, b) ==
    \E c1, c2 \in Nodes(t) :
        /\ t.parent[c1] # 0
        /\ t.parent[c1] = t.parent[c2]
        /\ c1 < c2
        /\ IsAncestorOrSelf(t, c1, a)
        /\ IsAncestorOrSelf(t, c2, b)

\* the number of edges between the root and n
RECURSIVE Distance(_, _)
Distance(t, n) == IF t.parent[n] = 0 THEN 0 ELSE 1 + Distance(t, t.parent[n])

\* ids lists exactly the childless nodes of t, each once, in source order
LeavesInOrder(t, ids) ==
    /\ {ids[k] : k \in 1..Len(ids)} = Childless(t)
    /\ Len(ids) = Cardinality(Childless(t))
    /\ \A j, k \in 1..Len(ids) : j < k => Before(t, ids[j], ids[k])

LeafTokensDone == bpc = "returned" /\ entry = ProcessAst

LeafNodesDone == bpc \in {"loop", "returned"} /\ entry \in {Extract, BioLabelStr}
                    /\ ast # NoTree

TokenNodes == [k \in 1..Len(leaf_tokens) |-> leaf_tokens[k].node]

\* C14: extract_leaf_tokens, and get_nodes_at_level with target level -1,
\* return exactly the childless nodes of the tree, each once, in left-to-right
\* source order, and never a node that has children; a tree of a single node
\* yields that node as its only leaf.
C14_LeafExtraction ==
    /\ LeafTokensDone =>
        /\ LeavesInOrder(ast, TokenNodes)
        /\ \A k \in 1..Len(leaf_tokens) :
            /\ leaf_tokens[k].type = ast.type[leaf_tokens[k].node]
            /\ leaf_tokens[k].text = ast.text[leaf_tokens[k].node]
        /\ Len(ast.parent) = 1 => TokenNodes = <<1>>
    /\ LeafNodesDone =>
        /\ LeavesInOrder(ast, leaf_nodes)
        /\ Len(ast.parent) = 1 => leaf_nodes = <<1>>

\* the leaves of a tree whose source order is not the order of the node
\* numbers have been listed
C14_Witness ==
    /\ bpc = "returned"
    /\ ast.parent = <<0, 1, 1, 2, 2>>
    /\ entry = ProcessAst
    /\ TokenNodes = <<4, 5, 3>>

\* C15 as stated: a leaf that is a direct child of the root has depth 0 and
\* a leaf d levels below the root's children depth d; the root is emitted
\* only when it is the whole tree.
C15_DepthFromRootChildren ==
    LeafTokensDone =>
        \A k \in 1..Len(leaf_tokens) :
            /\ leaf_tokens[k].node = 1 => Len(ast.parent) = 1
            /\ leaf_tokens[k].node # 1 =>
                leaf_tokens[k].depth = Distance(ast, leaf_tokens[k].node) - 1

\* C15, amended: the depth of a leaf is its distance from the root: 0 for
\* the root, emitted only when it is the whole tree, 1 for a direct child of
\* the root, and one more per level of descent.
C15_DepthFromRoot ==
    LeafTokensDone =>
        \A k \in 1..Len(leaf_tokens) :
            /\ leaf_tokens[k].node = 1 => Len(ast.parent) = 1
            /\ leaf_tokens[k].depth = Distance(ast, leaf_tokens[k].node)

\* leaves one, two and three levels below the root have been emitted
C15_Witness ==
    /\ LeafTokensDone
    /\ ast.parent = <<0, 1, 1, 3, 4>>
    /\ [k \in 1..Len(leaf_tokens) |-> leaf_tokens[k].depth] = <<1, 3>>

\* the table of extract_bio_labels_from_source_code has been printed
TablePrinted == bpc = "returned" /\ entry = Extract /\ ast # NoTree

\* the tag (B, I or O) and the label name of a LABEL cell "B-name"
TagOf(cell) == cell[1]
NameOf(cell) == SubSeq(cell, 3, Len(cell))

\* an anonymous token: a node whose type is its text
IsAnonymous(t, n) == t.type[n] = t.text[n]

\* C16 as stated: the label name of every leaf is the node type of its
\* nearest enclosing named ancestor (in these trees every inner node is
\* named, so its parent), never the leaf's own node type.
C16_NearestNamedAncestor ==
    TablePrinted =>
        \A k \in 1..Len(leaf_nodes) :
            /\ NameOf(table.LABEL[k]) # ast.type[leaf_nodes[k]]
            /\ ast.parent[leaf_nodes[k]] # 0 =>
                NameOf(table.LABEL[k]) = ast.type[ast.parent[leaf_nodes[k]]]

\* C16, amended: the label name of a leaf is the node type of its parent
\* when the leaf has a parent and is an anonymous token or an identifier;
\* it is the leaf's own node type for every other leaf (a number literal, a
\* root without children).
C16_ParentOrOwnType ==
    TablePrinted =>
        /\ Len(table.LABEL) = Len(leaf_nodes)
        /\ \A k \in 1..Len(leaf_nodes) :
            LET n == leaf_nodes[k]
            IN  NameOf(table.LABEL[k]) =
                    IF /\ ast.parent[n] # 0
                       /\ IsAnonymous(ast, n) \/ ast.type[n] = TypeIdentifier
                    THEN ast.type[ast.parent[n]]
                    ELSE ast.type[n]

\* an identifier, a number literal and a ; of one block have been labelled
C16_Witness ==
    /\ TablePrinted
    /\ language = "java"
    /\ ast.parent = <<0, 1, 2, 2, 2>>
    /\ ast.type = <<TypeProgram, TypeBlock, TypeIdentifier,
                    TypeDecimalIntegerLiteral, Semicolon>>
    /\ [k \in 1..3 |-> NameOf(table.LABEL[k])] =
            <<TypeBlock, TypeDecimalIntegerLiteral, TypeBlock>>

\* C17: in the printed tag sequence a token is tagged B only if it is the
\* first token or the token before it carries a different label name, and
\* the second of two consecutive tokens with the same label name is tagged I.
C17_BioContiguity ==
    TablePrinted =>
        \A k \in 1..Len(table.LABEL) :
            /\ TagOf(table.LABEL[k]) = "B" =>
                \/ k = 1
                \/ NameOf(table.LABEL[k - 1]) # NameOf(table.LABEL[k])
            /\ (k > 1 /\ NameOf(table.LABEL[k - 1]) = NameOf(table.LABEL[k])) =>
                TagOf(table.LABEL[k]) = "I"

\* C18: a leaf is tagged O only when it has no enclosing node, and the cell
\* of an O-tagged token holds no label name.
C18_OutsideHasNoContext ==
    TablePrinted =>
        \A k \in 1..Len(table.LABEL) :
            TagOf(table.LABEL[k]) = "O" =>
                /\ ast.parent[leaf_nodes[k]] = 0
                /\ NameOf(table.LABEL[k]) = <<>>

\* C19: called with a grammar id other than 'java' and 'python', a labelling
\* entry point makes no parser, parses nothing and does not return normally;
\* no source is parsed with a grammar other than the one asked for.
C19_UnsupportedGrammarFailsFast ==
    entry \in {Extract, BioLabelStr} =>
        /\ grammar \in {"none", language}
        /\ language \notin {"java", "python"} =>
            /\ grammar = "none"
            /\ ast = NoTree
            /\ bpc # "returned"

\* C20: when the path does not name an existing file, main prints a
\* diagnostic and exits with code 1, and has not made the output directory,
\* parsed, extracted activations or written any output file.
C20_MissingFileExits ==
    (mpc # "idle" /\ java_file_path \notin disk_files) =>
        /\ mpc \in {"check", "exited"}
        /\ ~made_dir
        /\ ~ast_done /\ ~activations_done /\ ~patterns_done
        /\ written = {}
        /\ mpc = "exited" =>
            /\ exit_code = <<1>>
            /\ stdout = <<<<"E", "r", "r", "o", "r", ":", SP, "F", "i", "l", "e", SP, "'">>
                              \o java_file_path \o <<"'", SP, "d", "o", "e", "s", SP, "n", "o", "t", SP, "e", "x", "i", "s", "t", ".">>>>

\* main has exited on a path that names no file although other files exist
C20_Witness ==
    /\ mpc = "exited"
    /\ java_file_path = <<"A", ".", "j", "a", "v", "a">>
    /\ disk_files = {<<"d", "/", "B", ".", "j", "a", "v", "a">>}
    /\ disk_dirs = {}
    /\ exit_code = <<1>>
    /\ Len(stdout) = 1

\* ------------------------------------------------------------------------
\* Steps of write_file
\* ------------------------------------------------------------------------
\* the step that handles an empty line is being taken
BlankStep ==
    /\ pc = "loop"
    /\ li < Len(lines)
    /\ lines[li + 1] = <<>>
    /\ li' = li + 1

\* C24: the step for an empty source line appends exactly one empty line to
\* each of .in, .label and .bio and leaves prev, token_index and decreased
\* as they are: a blank line consumes no token.
C24_BlankLineStep ==
    [][BlankStep =>
        /\ file_in' = file_in \o <<NL>>
        /\ file_labels' = file_labels \o <<NL>>
        /\ file_bio' = file_bio \o <<NL>>
        /\ prev' = prev
        /\ token_index' = token_index
        /\ decreased' = decreased]_vars

\* a blank line has been handled after a line that consumed tokens, while
\* tokens were still waiting, and the cursor stayed where it was
C24_Witness ==
    /\ pc \in {"loop", "ready"}
    /\ \E g \in 2..Len(groups) :
          /\ groups[g].blank
          /\ groups[g - 1].written # <<>>
          /\ groups[g].first > 0
          /\ groups[g].first < Len(tokens)
          /\ CursorAfter(g) = groups[g].first

\* the 0-based token indices first, ..., first + n - 1
Run(first, n) == [i \in 1..n |-> first + i - 1]

\* the scan of line g failed after k >= 2 tokens had matched
FailedAfterTwo(g) ==
    ~groups[g].blank /\ groups[g].failed /\ Len(groups[g].starts) >= 2

\* C25 as stated: when the scan of a line fails after k >= 2 tokens had
\* matched, the group holds the first k - 1 matched tokens and the k-th is
\* the first token tried on the next line.
C25_RetractionPushesBack ==
    pc \in {"loop", "ready", "raised"} =>
        \A g \in 1..Len(groups) :
            FailedAfterTwo(g) =>
                /\ groups[g].written =
                        Run(groups[g].first, Len(groups[g].starts) - 1)
                /\ CursorAfter(g) = groups[g].first + Len(groups[g].starts) - 1

\* C25, amended: when the scan of a line fails after k >= 2 tokens had
\* matched, the group holds exactly the k matched tokens and the token whose
\* search failed is the first token tried on the next line.
C25_RetractionKeepsMatched ==
    pc \in {"loop", "ready", "raised"} =>
        \A g \in 1..Len(groups) :
            FailedAfterTwo(g) =>
                /\ groups[g].written = Run(groups[g].first, Len(groups[g].starts))
                /\ CursorAfter(g) = groups[g].first + Len(groups[g].starts)

\* a scan has failed at a third token after two matches
C25_Witness ==
    /\ pc \in {"loop", "ready"}
    /\ \E g \in 1..Len(groups) :
          /\ FailedAfterTwo(g)
          /\ groups[g].written = <<0, 1>>
          /\ CursorAfter(g) = 2
          /\ Len(tokens) = 3

\* C26: when every remaining token is found in the current line, all of the
\* n >= 1 remaining tokens are written to that line.
C26_CompleteScanKeepsAll ==
    pc \in {"loop", "ready", "raised"} =>
        \A g \in 1..Len(groups) :
            (~groups[g].blank /\ ~groups[g].failed /\ groups[g].starts # <<>>) =>
                groups[g].written =
                    Run(groups[g].first, Len(tokens) - groups[g].first)

\* C27: within one line, each token is matched at or after the end of the
\* match of the token before it.
C27_MatchesDoNotOverlap ==
    pc \in {"loop", "ready", "raised"} =>
        \A g \in 1..Len(groups) :
            \A i \in 2..Len(groups[g].starts) :
                groups[g].starts[i] >=
                    groups[g].starts[i - 1]
                        + Len(tokens[groups[g].first + i - 1])

\* ------------------------------------------------------------------------
\* The state of the labelling loop
\* ------------------------------------------------------------------------
\* the tag letter of the k-th element of bio
BioTag(k) == SplitOn(bio[k], <<":", " ">>)[2][1]

\* the k-th leaf is anonymous: its node type is its text
AnonymousLeaf(k) == ast.type[leaf_nodes[k]] = leaf_text(ast, leaf_nodes[k])

\* the grammar heuristic of the labelling loop, for the k-th leaf
Heuristic(k) ==
    LET kids == children(ast, ast.parent[leaf_nodes[k]])
    IN  \/ language = "python" /\ Len(kids) = 2
        \/ language = "java" /\ Len(kids) = 3 /\ ast.type[kids[3]] = Semicolon

\* C28: after each processed leaf exactly one of prev and o_type is None; an
\* anonymous leaf at index > 0 is never tagged I, is tagged B exactly when
\* the grammar heuristic holds and O otherwise, and the leaf right after it
\* is never tagged I.
C28_TaggerState ==
    (bpc = "loop" /\ bi > 0) =>
        /\ (bio_prev = <<>>) # (o_type = <<>>)
        /\ \A k \in 2..Len(bio) :
              AnonymousLeaf(k) =>
                  /\ BioTag(k) # "I"
                  /\ BioTag(k) = (IF Heuristic(k) THEN "B" ELSE "O")
                  /\ k < Len(bio) => BioTag(k + 1) # "I"

\* a Java statement whose second leaf is anonymous and tagged B by the
\* heuristic, followed by another leaf that is tagged B
C28_Witness ==
    /\ bpc = "loop"
    /\ language = "java"
    /\ bi = Len(leaf_nodes)
    /\ \E k \in 2..(Len(bio) - 1) :
          AnonymousLeaf(k) /\ Heuristic(k) /\ BioTag(k) = "B" /\ BioTag(k + 1) = "B"

\* ------------------------------------------------------------------------
\* Runs of generate_in_label_bio_files
\* ------------------------------------------------------------------------
\* the run has gone past the test of line 105
PastCacheTest == gpc \notin {"idle", "start", "truncated"}

\* the run was ended by an exception of generate_in_label_bio_files' own
\* lines, not by one of write_file
RaisedOutsideWriteFile ==
    gpc = "raised" /\ (gen_error = "FileNotFoundError" \/ ~strings.bound)

\* C23: when the CSV export of the source exists the run does not invoke the
\* labelling step, reads the CSV and goes on to write the line groups; when
\* it is absent the run invokes the labelling step first.
C23_CacheUse ==
    PastCacheTest =>
        /\ ReadCsv \in csv_before => (labelled = 0 /\ ~RaisedOutsideWriteFile)
        /\ ReadCsv \notin csv_before => labelled = 1

\* C29: after a second run on the same unchanged source the three outputs
\* hold exactly what the first run left in them.
C29_RerunIdempotent ==
    (gpc = "returned" /\ runs >= 2) =>
        <<file_in, file_labels, file_bio>> = first_run

\* a second run has returned after labelling the source again and writing
\* tokens on more than one line
C29_Witness ==
    /\ gpc = "returned"
    /\ runs = 2
    /\ labelled = 1
    /\ Len(groups) >= 2
    /\ \E g \in 1..Len(groups) : groups[g].written # <<>>
    /\ file_in # <<>>
    /\ first_run[1] = file_in

\* ------------------------------------------------------------------------
\* The ActivationAnnotator's error handling
\* ------------------------------------------------------------------------
\* the filter string has the form re:<regex> or set:<words>
KnownForm(f) == StartsWith(f, RePrefix) \/ StartsWith(f, SetPrefix)

HandleEnded == ann_entry = "handle_binary_filter" /\ apc \in {"returned", "raised"}

\* C21: handle_binary_filter raises ValueError for a filter string of
\* neither form and leaves binary_filter_compiled as it was; for the re: and
\* set: forms it does not raise.
C21_InvalidFilterRaisesValueError ==
    HandleEnded =>
        IF KnownForm(binary_filter)
        THEN apc = "returned"
        ELSE /\ apc = "raised"
             /\ ann_error = "ValueError"
             /\ binary_filter_compiled = compiled_before

AggregateEnded ==
    ann_entry = "aggregate_activation_list" /\ apc \in {"returned", "raised"}

\* C22: aggregate_activation_list raises ValueError for every method keyword
\* outside mean, max, sum and concat, and returns a value for each of the
\* four on a non-empty activation list.
C22_UnsupportedAggregation ==
    AggregateEnded =>
        /\ aggregation_method \notin Supported =>
              (apc = "raised" /\ ann_error = "ValueError" /\ aggregated = None)
        /\ (aggregation_method \in Supported /\ activations # <<>>) =>
              (apc = "returned" /\ ann_error = "none" /\ aggregated # None)

\* an unknown keyword has been refused on a list of two layers
C22_Witness ==
    /\ AggregateEnded
    /\ aggregation_method = "median"
    /\ Len(activations) = 2
    /\ Len(activations[1]) = 2
    /\ apc = "raised"
    /\ ann_error = "ValueError"

\* C30: a run of process_activations with an invalid binary filter leaves no
\* activations.json and no annotation output behind.
C30_FilterValidatedFirst ==
    (/\ ann_entry = "process_activations"
     /\ apc = "raised"
     /\ ~KnownForm(binary_filter)) =>
        ann_files = {}

============================================================================
